---- MODULE Spec2Model ----
(***************************************************************************)
(* Model of the interactive-CLI automation code of code-server-labs.       *)
(*                                                                         *)
(*   SpecInstaller  VSCodeServerInstaller (vscode_server_installer.py):    *)
(*                  show_menu and the setup_tunnel session it drives.      *)
(*   SpecQuick      setup_github_tunnel (quick_github_tunnel.py).          *)
(*   SpecSetup      CodeServerSetup (code_server_colab_setup.py): the menu *)
(*                  loop, start/stop of the VS Code tunnel and of the      *)
(*                  Cloudflare tunnel.                                     *)
(*                                                                         *)
(* A child process is the environment: it emits lines, exits with a code,  *)
(* and may or may not honour SIGTERM within a grace period.                *)
(***************************************************************************)
EXTENDS Integers, Sequences, FiniteSets, TLC

\* ------------------------------------------------------------------ bounds
\* lines one child may emit during one session
MaxLines == 3
\* granularity and horizon of the wall clock, in seconds
TickStep == 150
MaxClock == 450

\* lines one process of setup_github_tunnel may emit
MaxQuickLines == 2
\* granularity and horizon of the clock of one approach, in seconds
QuickTick == 6
QuickMaxClock == 14

\* process ids the operating system hands out to `code tunnel` processes
\* and to cloudflared processes
MaxCodePid == 2
MaxCfPid == 1
\* lines one `code tunnel` process may emit while start_vscode_server waits
MaxSetupLines == 2
\* granularity and horizon of the clock of start_vscode_server, in seconds
SetupTick == 60
SetupMaxClock == 130

\* distinct primitive values a configuration document may hold
MaxPrim == 2

\* parts (shims and original code) an extension file may grow to
MaxParts == 4

\* process ids the operating system hands out to code-server processes
MaxServerPid == 2

\* lines of a child's output the scanner of setup_tunnel is replayed on
MaxScan == 3

\* child processes run_command may launch in one run of the program
MaxCommands == 4

\* ------------------------------------------------------- program constants
\* start_vscode_server waits this long for the tunnel URL
timeout == 120
timeout_seconds == 300
\* setup_github_tunnel watches each approach this long
monitor_seconds == 10

\* ------------------------------------------------------------ sample lines
\* Lines a child may print, after line.strip().  Occurs tabulates the
\* case-sensitive substrings of each line that setup_tunnel tests for,
\* OccursLower those of line.lower().
PromptLine == "? How would you like to log in to Visual Studio Code?"
MenuLine == "  GitHub Account"
ErrorLine == "error: bad token"
SuccessLine == "Tunnel successfully created"
BlankLine == ""

DeviceLine == "To grant access, open https://github.com/login/device and use code 1A2B-3C4D"

SampleLines == {PromptLine, MenuLine, ErrorLine, SuccessLine, BlankLine}

\* what `code tunnel` may print while start_vscode_server waits for the URL
UrlLine == "Open this link in your browser https://vscode.dev/tunnel/colab"
BareLine == "Connect at vscode.dev/tunnel/colab"
SetupLines == {UrlLine, BareLine, ErrorLine}

\* re.search(r'https://[^\s]+', line): the first URL of the line, "" for
\* no match
FirstUrl(line) ==
    CASE line = UrlLine    -> "https://vscode.dev/tunnel/colab"
      [] line = DeviceLine -> "https://github.com/login/device"
      [] OTHER             -> ""

\* what a process of setup_github_tunnel may print
QuickLines == {PromptLine, DeviceLine, ErrorLine, BlankLine}

Occurs(line) ==
    CASE line = PromptLine  -> {"How would you like to log in"}
      [] line = MenuLine    -> {"GitHub Account"}
      [] line = ErrorLine   -> {}
      [] line = SuccessLine -> {}
      [] line = DeviceLine  -> {"To grant access", "github.com/login/device"}
      [] line = UrlLine     -> {"Open this link", "vscode.dev/tunnel"}
      [] line = BareLine    -> {"vscode.dev/tunnel"}
      [] OTHER              -> {}

OccursLower(line) ==
    CASE line = PromptLine  -> {"how would you like to log in"}
      [] line = MenuLine    -> {"github account"}
      [] line = ErrorLine   -> {"error"}
      [] line = SuccessLine -> {"successfully", "tunnel"}
      [] line = DeviceLine  -> {"to grant access", "github.com/login/device",
                                "use code"}
      [] OTHER              -> {}

Has(line, sub) == sub \in Occurs(line)
HasLower(line, sub) == sub \in OccursLower(line)

\* ------------------------------------------------------------- the scanner
\* The responder's guard: the login prompt, not yet answered.
ShouldRespondAlways(line, sent) == Has(line, "How would you like to log in")

ShouldRespond(line, sent) ==
    Has(line, "How would you like to log in") /\ ~sent

\* The if/elif chain of setup_tunnel applied to a non-empty stripped line.
Classify(line, sent) ==
    IF ShouldRespond(line, sent) THEN "prompt"
    ELSE IF \/ Has(line, "Microsoft Account") \/ Has(line, "GitHub Account")
            \/ Has(line, "[2A") \/ Has(line, "[2K") \/ Has(line, "[1B")
         THEN "menu"
    ELSE IF Has(line, "github.com/login/device") THEN "device_url"
    ELSE IF HasLower(line, "use code") THEN "device_code"
    ELSE IF Has(line, "Open this link") \/ HasLower(line, "open the link")
         THEN "link"
    ELSE IF HasLower(line, "successfully") THEN "success"
    ELSE IF HasLower(line, "error") THEN "error"
    ELSE IF HasLower(line, "waiting") THEN "waiting"
    ELSE IF Has(line, "To grant access") THEN "grant"
    ELSE IF HasLower(line, "tunnel") /\ HasLower(line, "ready") THEN "ready"
    ELSE IF HasLower(line, "tunnel")
            /\ (HasLower(line, "started") \/ HasLower(line, "running"))
         THEN "started"
    ELSE IF HasLower(line, "authentication")
            /\ (HasLower(line, "complete") \/ HasLower(line, "successful"))
         THEN "auth_done"
    ELSE IF HasLower(line, "logged in") THEN "logged_in"
    ELSE "other"

SuccessTags == {"success", "ready", "started", "auth_done", "logged_in"}
ErrorTags == {"error"}

\* The value setup_tunnel returns for the exit code poll() reported.
ExitResultAlwaysTrue(poll) == "True"

ExitResultNeverTrue(poll) == "False"

ExitResult(poll) == IF poll = 0 THEN "True" ELSE "False"

\* ------------------------------------------------------------------- state
VARIABLES
    ipc,              \* VSCodeServerInstaller: position in show_menu/setup_tunnel
    config,           \* VSCodeServerInstaller.config
    child,            \* the launched process: "none", "running", "exited"
    exitcode,         \* its return code once exited: {code}; {} before
    pipe,             \* lines the child wrote to stdout, not yet read
    emitted,          \* number of lines the child has written
    output_lines,     \* setup_tunnel's transcript
    tags,             \* tag of every classified line, in order
    auth_method_sent, \* the prompt has been answered
    stdin_writes,     \* responses written to the child's stdin
    elapsed,          \* time.time() - start_time
    term_sent,        \* SIGTERM was delivered to the child
    kill_sent,        \* SIGKILL was delivered to the child
    poll,             \* last value of process.poll(): {} for None, or {code}
    pending,          \* what the try block is leaving with, while in finally
    ending,           \* the path by which the last session left the loop
    result,           \* what the last setup_tunnel call handed to show_menu
    \* setup_github_tunnel (quick_github_tunnel.py)
    qpc,              \* position in setup_github_tunnel
    approach,         \* index of the approach being tried, 0 before the first
    qchild,           \* per approach, its process: "none", "running", "exited"
    qterm,            \* per approach, whether terminate() reached its process
    qpipe,            \* unread stdout lines of the current process
    qemitted,         \* lines the current process has written
    qelapsed,         \* time.time() - start_time of the current approach
    qending,          \* how setup_github_tunnel ended
    qresult,          \* what setup_github_tunnel returned
    \* CodeServerSetup (code_server_colab_setup.py)
    spc,              \* position in show_interactive_menu / the operation
    sconfig,          \* the stored tunnel records of ConfigManager
    psutil,           \* PSUTIL_AVAILABLE
    authenticated,    \* the CLI holds a login: `code tunnel user show` succeeds
    procs,            \* process table: pid -> "free", "running", "exited"
    vs_handle,        \* pid of self.vscode_server_process, 0 when not set
    s_pipe,           \* unread stdout lines of that process
    s_emitted,        \* lines that process has written
    s_elapsed,        \* time.time() - start_time in start_vscode_server
    s_tunnel_url,     \* the local tunnel_url, "" for None
    s_stopped,        \* the local stopped of stop_vscode_server
    s_op,             \* the operation that ran last
    s_result,         \* what it returned, or told the operator
    \* ConfigManager._merge_config and the merge of load_config, as functions
    mpc,              \* "input", "merged", "remerged", "filled", "refilled"
    m_default,        \* the argument default
    m_user,           \* the argument user
    m_result,         \* _merge_config(default, user)
    m_again,          \* _merge_config(default, that result)
    m_flat,           \* the merge of VSCodeServerInstaller.load_config
    m_flat_again,     \* that merge applied to its own result
    \* the configuration file and the object loaded from it
    cprog,            \* whose file: "setup" (ConfigManager) or "installer"
    cpc,              \* "start" before load_config, "ready", "error"
    cfile,            \* the file on disk: whether it exists, and its text
    cconfig,          \* the configuration in memory
    cdefaults,        \* DEFAULT_CONFIG as it stands in memory
    caliased,         \* sections config shares with DEFAULT_CONFIG
    cbefore,          \* what the previous instance held when it ended
    creloaded,        \* an earlier instance ran on this file
    cdirty,           \* this instance has changed its configuration
    \* the crypto shim injector of CodeServerSetup, on one extension.js
    hpc,              \* position in the injection or the aggressive fix
    h_driver,         \* the caller: "fix" (fix_crypto_extensions) or "inject"
    h_file,           \* content of extension.js, as a sequence of parts
    h_backup,         \* content of extension.js.backup: {} while absent
    h_original,       \* content of extension.js.original: {} while absent
    h_injected,       \* injected_count of the normal injection
    \* start_code_server and stop_code_server of CodeServerSetup, whose
    \* position is spc: "cs_started", "cs_iter", "cs_wait", "cs_verify"
    kprocs,           \* code-server processes: pid -> "free", "running",
                      \* "exited"
    k_signal,         \* the last signal sent to each: "none", "term", "kill"
    k_iter,           \* processes psutil.process_iter has yet to yield
    k_proc,           \* proc of the loop, 0 outside its body
    k_killed,         \* the local killed of stop_code_server
    k_found,          \* its local processes_found
    \* the output scanner of setup_tunnel, run twice on one child output
    o_input,          \* the lines the child prints, after strip()
    o_pass,           \* 1: the first session, 2: the replay
    o_pos,            \* lines read in this session
    o_output_lines,   \* output_lines of this session
    o_sent,           \* auth_method_sent of this session
    o_log,            \* per session and line: what the scanner was given
                      \* and what it decided
    \* SystemUtils.run_command and the menu operations that call it
    r_bins,           \* the external binaries present on the host
    r_launched,       \* child processes launched so far
    r_tried,          \* the installs the last hybrid install ran, with outcomes
    r_raised,         \* the exception the last operation raised, "" for none
    \* the shell profiles (registry configuration)
    p_files,          \* each shell profile: whether it exists, and its text
    p_log,            \* the gallery values of the updates written, in order
    p_report,         \* how the last update ended
    \* the server type in use
    w_server_type,    \* config["server_type"]
    \* the stored extension lists
    x_extensions,     \* config["extensions"] of the installer
    x_custom,         \* extensions.custom of the menu program
    x_popular         \* extensions.popular of the menu program

ivars == <<ipc, config, child, exitcode, pipe, emitted, output_lines, tags,
           auth_method_sent, stdin_writes, elapsed, term_sent, kill_sent,
           poll, pending, ending, result>>

qvars == <<qpc, approach, qchild, qterm, qpipe, qemitted, qelapsed, qending,
           qresult>>

svars == <<spc, sconfig, psutil, authenticated, procs, vs_handle, s_pipe, s_emitted,
           s_elapsed, s_tunnel_url, s_stopped, s_op, s_result>>

mvars == <<mpc, m_default, m_user, m_result, m_again, m_flat, m_flat_again>>

cvars == <<cprog, cpc, cfile, cconfig, cdefaults, caliased, cbefore,
           creloaded, cdirty>>

hvars == <<hpc, h_driver, h_file, h_backup, h_original, h_injected>>

kvars == <<kprocs, k_signal, k_iter, k_proc, k_killed, k_found>>

ovars == <<o_input, o_pass, o_pos, o_output_lines, o_sent, o_log>>

rvars == <<r_bins, r_launched, r_tried, r_raised>>

pvars == <<p_files, p_log, p_report>>

wvars == <<w_server_type>>

xvars == <<x_extensions, x_custom, x_popular>>

vars == <<ivars, qvars, svars, mvars, cvars, hvars, kvars, ovars, rvars, pvars, wvars, xvars>>

\* what an action of one program leaves alone: the state of the others
\* (the code-server operations belong to the program of svars)
besides_ivars == <<qvars, svars, mvars, cvars, hvars, kvars, ovars, rvars, pvars, wvars, xvars>>
besides_qvars == <<ivars, svars, mvars, cvars, hvars, kvars, ovars, rvars, pvars, wvars, xvars>>
besides_svars == <<ivars, qvars, mvars, cvars, hvars, kvars, ovars, rvars, pvars, wvars, xvars>>
besides_mvars == <<ivars, qvars, svars, cvars, hvars, kvars, ovars, rvars, pvars, wvars, xvars>>
besides_cvars == <<ivars, qvars, svars, mvars, hvars, kvars, ovars, rvars, pvars, wvars, xvars>>
besides_hvars == <<ivars, qvars, svars, mvars, cvars, kvars, ovars, rvars, pvars, wvars, xvars>>
besides_kvars == <<ivars, qvars, mvars, cvars, hvars, ovars, rvars, pvars, wvars, xvars>>
besides_ovars == <<ivars, qvars, svars, mvars, cvars, hvars, kvars, rvars, pvars, wvars, xvars>>
besides_rvars == <<ivars, qvars, mvars, cvars, hvars, kvars, ovars, pvars, wvars, xvars>>
besides_pvars == <<ivars, qvars, svars, mvars, cvars, hvars, kvars, ovars, rvars, wvars, xvars>>
besides_wvars == <<ivars, qvars, mvars, cvars, hvars, ovars, rvars, pvars, xvars>>
besides_xvars == <<ivars, qvars, svars, mvars, cvars, hvars, kvars, ovars, rvars, pvars, wvars>>

\* what the operator may type as the tunnel name
TunnelNames == {"", "dev", "lab"}

\* exit codes a child may choose; a child ended by a signal has the
\* negated signal number as its Popen.returncode
ExitCodes == {0, 1}
BySigterm == {-15}
BySigkill == {-9}

InitInstaller ==
    /\ ipc = "menu"
    /\ config = [tunnel_name |-> "", server_installed |-> FALSE,
                 tunnel_configured |-> FALSE]
    /\ child = "none"
    /\ exitcode = {}
    /\ pipe = <<>>
    /\ emitted = 0
    /\ output_lines = <<>>
    /\ tags = <<>>
    /\ auth_method_sent = FALSE
    /\ stdin_writes = 0
    /\ elapsed = 0
    /\ term_sent = FALSE
    /\ kill_sent = FALSE
    /\ poll = {}
    /\ pending = "none"
    /\ ending = "none"
    /\ result = "none"

\* the three entries of the approaches list
NumApproaches == 3
Approaches == 1..NumApproaches

InitQuick ==
    /\ qpc = "start"
    /\ approach = 0
    /\ qchild = [a \in Approaches |-> "none"]
    /\ qterm = [a \in Approaches |-> FALSE]
    /\ qpipe = <<>>
    /\ qemitted = 0
    /\ qelapsed = 0
    /\ qending = "none"
    /\ qresult = "none"

CodePids == 1..MaxCodePid
CfPids == (MaxCodePid + 1)..(MaxCodePid + MaxCfPid)
Pids == CodePids \cup CfPids

\* another script of the repository is the one running
SetupIdle ==
    /\ spc = "menu"
    /\ sconfig = [tunnel_name |-> "", tunnel_url |-> "", process_pid |-> 0,
                  cf_tunnel_name |-> "", cf_process_pid |-> 0]
    /\ procs = [p \in Pids |-> "free"]
    /\ vs_handle = 0
    /\ s_pipe = <<>>
    /\ s_emitted = 0
    /\ s_elapsed = 0
    /\ s_tunnel_url = ""
    /\ s_stopped = FALSE
    /\ s_op = "none"
    /\ s_result = "none"

\* ------------------------------------------------- configuration documents
\* A JSON value is a primitive or a mapping from keys to values; a document
\* is a mapping.  Prim(n) stands for the n-th primitive value.
Prim(n) == <<"prim", n>>
Dict(f) == <<"dict", f>>
\* isinstance(value, dict)
IsDict(value) == value[1] = "dict"

\* keys of the sample documents: one primitive setting and one section
TopKeys == {"server_type", "code_server"}
SubKeys == {"port", "auth"}

PrimValues == {Prim(n) : n \in 1..MaxPrim}
DictsOver(K, V) == UNION {[S -> V] : S \in SUBSET K}
Sections == DictsOver(SubKeys, PrimValues)
Values == PrimValues \cup {Dict(f) : f \in Sections}
Docs == DictsOver(TopKeys, Values)

\* a merge that leaves out the keys its two arguments share
merge_config_dropping(default, user) ==
    [key \in (DOMAIN default \cup DOMAIN user)
               \ (DOMAIN default \cap DOMAIN user) |->
        IF key \in DOMAIN user THEN user[key] ELSE default[key]]

\* a merge that does not descend into sections
merge_config_shallow(default, user) ==
    [key \in DOMAIN default \cup DOMAIN user |->
        IF key \in DOMAIN user THEN user[key] ELSE default[key]]

\* ConfigManager._merge_config
RECURSIVE merge_config(_, _)
merge_config(default, user) ==
    [key \in DOMAIN default \cup DOMAIN user |->
        IF key \notin DOMAIN user THEN default[key]
        ELSE IF /\ key \in DOMAIN default
                /\ IsDict(default[key]) /\ IsDict(user[key])
             THEN Dict(merge_config(default[key][2], user[key][2]))
             ELSE user[key]]

\* the merge loop of VSCodeServerInstaller.load_config: a default is
\* filled in for every top-level key the file lacks
fill_missing(default_config, loaded) ==
    [key \in DOMAIN loaded \cup DOMAIN default_config |->
        IF key \in DOMAIN loaded THEN loaded[key] ELSE default_config[key]]

\* no merge is being examined
MergeIdle ==
    /\ mpc = "input"
    /\ m_default = <<>> /\ m_user = <<>>
    /\ m_result = <<>> /\ m_again = <<>>
    /\ m_flat = <<>> /\ m_flat_again = <<>>

\* the two arguments are any two documents
InitMerge ==
    /\ mpc = "input"
    /\ m_default \in Docs /\ m_user \in Docs
    /\ m_result = <<>> /\ m_again = <<>>
    /\ m_flat = <<>> /\ m_flat_again = <<>>

\* -------------------------------------------------- the configuration file
\* The compiled-in defaults, cut down to one setting and one section
DEFAULT_CONFIG ==
    [server_type |-> Prim(1),
     code_server |-> Dict([port |-> Prim(1), auth |-> Prim(1)])]

\* default_config of the installer's load_config, cut down to two settings
default_config == [tunnel_name |-> Prim(1), server_installed |-> Prim(1)]

Defaults(prog) == IF prog = "setup" THEN DEFAULT_CONFIG ELSE default_config

\* The text of a JSON file is a sequence of tokens.  json.dump writes the
\* members of a mapping one after the other between an opening and a
\* closing token; the order of the members does not matter to json.load.
KeyOrder ==
    <<"server_type", "code_server", "extension_registry", "port", "auth",
      "hybrid_mode", "tunnel_name", "server_installed", "test_key">>

\* a dump that writes every section as an empty object
json_dump_shallow(value) ==
    IF IsDict(value)
    THEN LET keys == SelectSeq(KeyOrder, LAMBDA k : k \in DOMAIN value[2])
             one(k) == IF IsDict(value[2][k])
                       THEN << <<"key", k>>, <<"{", 0>>, <<"}", 0>> >>
                       ELSE << <<"key", k>>, <<"prim", value[2][k][2]>> >>
             RECURSIVE all(_)
             all(i) == IF i > Len(keys) THEN <<>>
                       ELSE one(keys[i]) \o all(i + 1)
         IN << <<"{", 0>> >> \o all(1) \o << <<"}", 0>> >>
    ELSE << <<"prim", value[2]>> >>

RECURSIVE json_dump(_)
json_dump(value) ==
    IF IsDict(value)
    THEN LET keys == SelectSeq(KeyOrder, LAMBDA k : k \in DOMAIN value[2])
             RECURSIVE all(_)
             all(i) == IF i > Len(keys) THEN <<>>
                       ELSE << <<"key", keys[i]>> >>
                            \o json_dump(value[2][keys[i]]) \o all(i + 1)
         IN << <<"{", 0>> >> \o all(1) \o << <<"}", 0>> >>
    ELSE << <<"prim", value[2]>> >>

\* json.load raised
ParseError == [ok |-> FALSE, value |-> Prim(0), next |-> 0]

RECURSIVE ParseValue(_, _), ParseMembers(_, _, _)
ParseValue(text, i) ==
    IF i > Len(text) THEN ParseError
    ELSE IF text[i][1] = "prim"
         THEN [ok |-> TRUE, value |-> Prim(text[i][2]), next |-> i + 1]
    ELSE IF text[i][1] = "{" THEN ParseMembers(text, i + 1, <<>>)
    ELSE ParseError

ParseMembers(text, i, members) ==
    IF i > Len(text) THEN ParseError
    ELSE IF text[i][1] = "}"
         THEN [ok |-> TRUE, value |-> Dict(members), next |-> i + 1]
    ELSE IF text[i][1] = "key"
         THEN LET r == ParseValue(text, i + 1)
              IN IF r.ok
                 THEN ParseMembers(text, r.next,
                                   (text[i][2] :> r.value) @@ members)
                 ELSE ParseError
    ELSE ParseError

\* a parser that takes a text that stops early for what it holds so far
json_load_lenient(text) ==
    LET closed == text \o << <<"}", 0>> >>
        r == ParseValue(text, 1)
        c == ParseValue(closed, 1)
    IN IF r.ok /\ r.next = Len(text) + 1 THEN r
       ELSE IF c.ok /\ c.next = Len(closed) + 1 THEN c
       ELSE ParseError

json_load(text) ==
    LET r == ParseValue(text, 1)
    IN IF r.ok /\ r.next = Len(text) + 1 THEN r ELSE ParseError

\* documents an installer file may hold
InstallerDocs == DictsOver({"tunnel_name", "test_key"}, PrimValues)

\* well-formed texts: a mapping, or valid JSON that is not a mapping
GoodTexts(prog) ==
    {json_dump(Dict(d)) :
        d \in IF prog = "setup" THEN Docs ELSE InstallerDocs}
    \cup {json_dump(Prim(1))}

\* texts json.load rejects: a well-formed text cut short, the empty file
BrokenTexts(prog) ==
    UNION {{SubSeq(t, 1, n) : n \in 0..(Len(t) - 1)} : t \in GoodTexts(prog)}

NoFile == [exists |-> FALSE, text |-> <<>>]

Files(prog) ==
    {NoFile} \cup [exists : {TRUE},
                   text : GoodTexts(prog) \cup BrokenTexts(prog)]

\* no configuration is being examined
ConfigIdle ==
    /\ cprog = "setup" /\ cpc = "start"
    /\ cfile = NoFile
    /\ cconfig = <<>> /\ cdefaults = DEFAULT_CONFIG /\ caliased = {}
    /\ cbefore = <<>> /\ creloaded = FALSE /\ cdirty = FALSE

\* a program is about to start on whatever file is on disk
InitConfig ==
    /\ cprog \in {"setup", "installer"} /\ cpc = "start"
    /\ cfile \in Files(cprog)
    /\ cconfig = <<>> /\ cdefaults = Defaults(cprog) /\ caliased = {}
    /\ cbefore = <<>> /\ creloaded = FALSE /\ cdirty = FALSE

\* ------------------------------------------------------ the shim injector
\* an installed extension nobody has patched
InitShim ==
    /\ hpc = "idle" /\ h_driver = "none"
    /\ h_file = <<"original">>
    /\ h_backup = {} /\ h_original = {}
    /\ h_injected = 0

\* no code-server process has been started
ServerPids == 1..MaxServerPid

ServerIdle ==
    /\ kprocs = [p \in ServerPids |-> "free"]
    /\ k_signal = [p \in ServerPids |-> "none"]
    /\ k_iter = {} /\ k_proc = 0
    /\ k_killed = FALSE /\ k_found = 0

\* ------------------------------------------------------ the scanner alone
\* what "output_lines = []" and "auth_method_sent = False" leave of the
\* transcript of an earlier session, and the same with the transcript kept
KeepTranscript(lines) == lines

FreshTranscript(lines) == <<>>

ScanIdle ==
    /\ o_input = <<>> /\ o_pass = 1 /\ o_pos = 0
    /\ o_output_lines = <<>> /\ o_sent = FALSE
    /\ o_log = [session \in {1, 2} |-> <<>>]

\* a child output of up to MaxScan lines is about to be scanned
InitScan ==
    /\ o_input \in UNION {[1..n -> SampleLines] : n \in 0..MaxScan}
    /\ o_pass = 1 /\ o_pos = 0
    /\ o_output_lines = <<>> /\ o_sent = FALSE
    /\ o_log = [session \in {1, 2} |-> <<>>]

\* ----------------------------------------------------------- run_command
Binaries == {"code-server", "cloudflared"}

CommandIdle ==
    /\ r_bins = Binaries /\ r_launched = 0
    /\ r_tried = <<>> /\ r_raised = ""

\* a host on which either binary may be missing
InitCommand ==
    /\ r_bins \in SUBSET Binaries /\ r_launched = 0
    /\ r_tried = <<>> /\ r_raised = ""

\* --------------------------------------------------------- shell profiles
\* The text of a profile is a sequence of tokens: a newline, a piece of a
\* line that does not mention EXTENSIONS_GALLERY ("text"), a piece the
\* user wrote that does ("mention"), or the export statement the program
\* writes for a gallery value ("export").
Nl == <<"nl", "">>
Other == <<"text", "">>
Mention == <<"mention", "">>

\* the order in which _update_shell_profile_registry looks for a profile
ProfileFiles == <<"bashrc", "bash_profile", "zshrc">>

\* the home directory of the menu program: ~/.bashrc alone, one line
ProfileIdle ==
    /\ p_files = [f \in 1..Len(ProfileFiles) |->
                     IF f = 1 THEN [exists |-> TRUE, text |-> <<Other, Nl>>]
                     ELSE [exists |-> FALSE, text |-> <<>>]]
    /\ p_log = <<>> /\ p_report = ""

\* what a profile may hold before the program touches it: nothing, a last
\* line with or without its newline, statements of the user's own that
\* set the variable
ProfileTexts ==
    {<<>>, <<Other, Nl>>, <<Other, Nl, Other>>,
     <<Mention, Nl, Other, Nl, Mention, Nl>>, <<Other, Nl, Mention>>}

\* a home directory with any of the three profiles
InitProfile ==
    /\ p_files \in [1..Len(ProfileFiles) ->
                      {[exists |-> FALSE, text |-> <<>>]} \cup
                      {[exists |-> TRUE, text |-> t] : t \in ProfileTexts}]
    /\ p_log = <<>> /\ p_report = ""

\* --------------------------------------------------------- extension lists
\* the default lists, cut down to their first and third entries: seven
\* (installer) and ten (menu program) identifiers, all different
DefaultExtensions == <<"ms-python.python", "ms-toolsai.jupyter">>
DefaultPopular == <<"ms-python.python", "ms-toolsai.jupyter">>

\* no configuration file: the defaults
ExtensionsIdle ==
    /\ x_extensions = DefaultExtensions
    /\ x_custom = <<>>
    /\ x_popular = DefaultPopular

\* the popular list may come from a configuration file
InitExtensions ==
    /\ x_extensions = DefaultExtensions
    /\ x_custom = <<>>
    /\ x_popular \in {DefaultPopular, <<"golang.go">>}

\* DEFAULT_CONFIG["server_type"]
SwitchIdle == w_server_type = "code-server"

\* the host of the run: psutil may be missing, and no login has been made
\* with the CLI yet (CodeServerSetup neither reads nor changes that)
InitSetup == SetupIdle /\ psutil \in BOOLEAN /\ authenticated = FALSE

Init ==
    /\ InitInstaller /\ InitQuick /\ SetupIdle
    /\ psutil = TRUE /\ authenticated = FALSE
    /\ MergeIdle /\ ConfigIdle /\ InitShim /\ ServerIdle /\ ScanIdle
    /\ CommandIdle
    /\ ProfileIdle
    /\ SwitchIdle
    /\ ExtensionsIdle

InitAtSetup ==
    InitInstaller /\ InitQuick /\ InitSetup /\ MergeIdle /\ ConfigIdle /\ InitShim /\ ServerIdle /\ ScanIdle /\ CommandIdle /\ ProfileIdle /\ SwitchIdle /\ ExtensionsIdle

InitAtMerge ==
    /\ InitInstaller /\ InitQuick /\ SetupIdle
    /\ psutil = TRUE /\ authenticated = FALSE
    /\ InitMerge /\ ConfigIdle /\ InitShim /\ ServerIdle /\ ScanIdle
    /\ CommandIdle
    /\ ProfileIdle
    /\ SwitchIdle
    /\ ExtensionsIdle

InitAtScan ==
    /\ InitInstaller /\ InitQuick /\ SetupIdle
    /\ psutil = TRUE /\ authenticated = FALSE
    /\ MergeIdle /\ ConfigIdle /\ InitShim /\ ServerIdle /\ InitScan
    /\ CommandIdle
    /\ ProfileIdle
    /\ SwitchIdle
    /\ ExtensionsIdle

InitAtCommand ==
    /\ InitInstaller /\ InitQuick /\ SetupIdle
    /\ psutil = TRUE /\ authenticated = FALSE
    /\ MergeIdle /\ ConfigIdle /\ InitShim /\ ServerIdle /\ ScanIdle
    /\ InitCommand
    /\ ProfileIdle
    /\ SwitchIdle
    /\ ExtensionsIdle

InitAtConfig ==
    /\ InitInstaller /\ InitQuick /\ SetupIdle
    /\ psutil = TRUE /\ authenticated = FALSE
    /\ MergeIdle /\ InitConfig /\ InitShim /\ ServerIdle /\ ScanIdle
    /\ CommandIdle
    /\ ProfileIdle
    /\ SwitchIdle
    /\ ExtensionsIdle

InitAtProfile ==
    /\ InitInstaller /\ InitQuick /\ SetupIdle
    /\ psutil = TRUE /\ authenticated = FALSE
    /\ MergeIdle /\ ConfigIdle /\ InitShim /\ ServerIdle /\ ScanIdle
    /\ CommandIdle
    /\ InitProfile
    /\ SwitchIdle
    /\ ExtensionsIdle

InitAtExtensions ==
    /\ InitInstaller /\ InitQuick /\ SetupIdle
    /\ psutil = TRUE /\ authenticated = FALSE
    /\ MergeIdle /\ ConfigIdle /\ InitShim /\ ServerIdle /\ ScanIdle
    /\ CommandIdle
    /\ ProfileIdle
    /\ SwitchIdle
    /\ InitExtensions

InSession == ipc \in {"loop", "readline", "poll", "to_wait", "finally"}

\* ------------------------------------------------------------ the child
ChildEmit ==
    /\ UNCHANGED besides_ivars
    /\ InSession /\ child = "running" /\ emitted < MaxLines
    /\ \E line \in SampleLines : pipe' = Append(pipe, line)
    /\ emitted' = emitted + 1
    /\ UNCHANGED <<ipc, config, child, exitcode, output_lines, tags,
                   auth_method_sent, stdin_writes, elapsed, term_sent,
                   kill_sent, poll, pending, ending, result>>

ChildExit ==
    /\ UNCHANGED besides_ivars
    /\ InSession /\ child = "running"
    /\ child' = "exited"
    /\ \E code \in ExitCodes : exitcode' = {code}
    /\ UNCHANGED <<ipc, config, pipe, emitted, output_lines, tags,
                   auth_method_sent, stdin_writes, elapsed, term_sent,
                   kill_sent, poll, pending, ending, result>>

Tick ==
    /\ UNCHANGED besides_ivars
    /\ InSession /\ elapsed + TickStep <= MaxClock
    /\ elapsed' = elapsed + TickStep
    /\ UNCHANGED <<ipc, config, child, exitcode, pipe, emitted, output_lines,
                   tags, auth_method_sent, stdin_writes, term_sent, kill_sent,
                   poll, pending, ending, result>>

\* ------------------------------------------------ VSCodeServerInstaller
\* show_menu: the operator picks an entry.  "1" download_vscode_server,
\* "2" setup_tunnel, "0" exit.
MenuDownload ==
    /\ UNCHANGED besides_ivars
    /\ ipc = "menu"
    /\ \E ok \in BOOLEAN :
         config' = IF ok THEN [config EXCEPT !.server_installed = TRUE]
                         ELSE config
    /\ ipc' = "pause"
    /\ UNCHANGED <<child, exitcode, pipe, emitted, output_lines, tags,
                   auth_method_sent, stdin_writes, elapsed, term_sent,
                   kill_sent, poll, pending, ending, result>>

MenuExit ==
    /\ UNCHANGED besides_ivars
    /\ ipc = "menu"
    /\ ipc' = "exited"
    /\ UNCHANGED <<config, child, exitcode, pipe, emitted, output_lines, tags,
                   auth_method_sent, stdin_writes, elapsed, term_sent,
                   kill_sent, poll, pending, ending, result>>

\* input("Tekan Enter untuk melanjutkan...") at the end of a loop round
\* The locals of the call that returned are gone by the next round; the
\* process it launched, if still running, is not.
MenuPause ==
    /\ UNCHANGED besides_ivars
    /\ ipc = "pause"
    /\ ipc' = "menu"
    /\ pipe' = <<>> /\ emitted' = 0
    /\ output_lines' = <<>> /\ tags' = <<>>
    /\ auth_method_sent' = FALSE /\ stdin_writes' = 0
    /\ elapsed' = 0
    /\ term_sent' = FALSE /\ kill_sent' = FALSE
    /\ poll' = {}
    /\ pending' = "none" /\ ending' = "none" /\ result' = "none"
    /\ UNCHANGED <<config, child, exitcode>>

\* setup_tunnel up to the start of the monitoring loop: the installed check,
\* the tunnel name, the binary checks and Popen.
SetupTunnelBegin ==
    /\ UNCHANGED besides_ivars
    /\ ipc = "menu"
    /\ \E name \in TunnelNames, binaryOk \in BOOLEAN, popenOk \in BOOLEAN :
         LET named == [config EXCEPT !.tunnel_name = name] IN
         IF ~config.server_installed \/ name = ""
         THEN /\ result' = "False" /\ ending' = "precheck" /\ ipc' = "pause"
              /\ UNCHANGED <<config, child, exitcode, pipe, emitted,
                             output_lines, tags, auth_method_sent,
                             stdin_writes, elapsed, term_sent, kill_sent, poll>>
         ELSE IF ~binaryOk
         THEN /\ config' = named
              /\ result' = "False" /\ ending' = "precheck" /\ ipc' = "pause"
              /\ UNCHANGED <<child, exitcode, pipe, emitted, output_lines,
                             tags, auth_method_sent, stdin_writes, elapsed,
                             term_sent, kill_sent, poll>>
         ELSE IF ~popenOk
         THEN /\ config' = named
              /\ result' = "False" /\ ending' = "popen_error" /\ ipc' = "pause"
              /\ UNCHANGED <<child, exitcode, pipe, emitted, output_lines,
                             tags, auth_method_sent, stdin_writes, elapsed,
                             term_sent, kill_sent, poll>>
         ELSE /\ config' = named
              /\ child' = "running" /\ exitcode' = {}
              /\ pipe' = <<>> /\ emitted' = 0
              /\ output_lines' = <<>> /\ tags' = <<>>
              /\ auth_method_sent' = FALSE /\ stdin_writes' = 0
              /\ elapsed' = 0
              /\ term_sent' = FALSE /\ kill_sent' = FALSE
              /\ poll' = {}
              /\ result' = "pending" /\ ending' = "none"
              /\ ipc' = "loop"
    /\ pending' = "none"

\* Top of the monitoring loop: the timeout check; on timeout, terminate().
CheckTimeout ==
    /\ UNCHANGED besides_ivars
    /\ ipc = "loop"
    /\ IF elapsed > timeout_seconds
       THEN /\ term_sent' = (term_sent \/ child = "running")
            /\ ipc' = "to_wait"
       ELSE /\ ipc' = "readline"
            /\ UNCHANGED term_sent
    /\ UNCHANGED <<config, child, exitcode, pipe, emitted, output_lines, tags,
                   auth_method_sent, stdin_writes, elapsed, kill_sent, poll,
                   pending, ending, result>>

\* Timeout path: wait(timeout=5), kill() on TimeoutExpired, return False.
\* A running child either exits within the grace period or does not.
TimeoutWait ==
    /\ UNCHANGED besides_ivars
    /\ ipc = "to_wait"
    /\ \/ /\ child = "exited"
          /\ UNCHANGED <<child, exitcode, kill_sent>>
       \/ /\ child = "running"
          /\ child' = "exited" /\ exitcode' = BySigterm
          /\ UNCHANGED kill_sent
       \/ /\ child = "running"
          /\ kill_sent' = TRUE
          /\ child' = "exited" /\ exitcode' = BySigkill
    /\ pending' = "False" /\ ending' = "timeout"
    /\ ipc' = "finally"
    /\ UNCHANGED <<config, pipe, emitted, output_lines, tags,
                   auth_method_sent, stdin_writes, elapsed, term_sent, poll,
                   result>>

\* readline() blocks until the child has written a line or closed stdout.
CanRead == pipe # <<>> \/ child = "exited"

\* One readline() and the handling of the line it returned.
ReadLine ==
    /\ UNCHANGED besides_ivars
    /\ ipc = "readline"
    /\ CanRead
    /\ IF pipe = <<>>
       THEN \* end of file: readline() returns the empty string
            /\ ipc' = "poll"
            /\ UNCHANGED <<pipe, output_lines, tags, auth_method_sent,
                           stdin_writes, pending, ending>>
       ELSE LET line == Head(pipe)
                tag  == Classify(line, auth_method_sent) IN
            /\ pipe' = Tail(pipe)
            /\ IF line = BlankLine
               THEN /\ output_lines' = Append(output_lines, line)
                    /\ ipc' = "poll"
                    /\ UNCHANGED <<tags, auth_method_sent, stdin_writes,
                                   pending, ending>>
               ELSE IF tag = "prompt" /\ child = "exited"
               THEN \* stdin.write/flush to a closed pipe raises: break
                    /\ output_lines' = Append(output_lines, line)
                    /\ tags' = Append(tags, tag)
                    /\ pending' = "None" /\ ending' = "read_error"
                    /\ ipc' = "finally"
                    /\ UNCHANGED <<auth_method_sent, stdin_writes>>
               ELSE IF tag = "prompt"
               THEN /\ output_lines' = Append(output_lines, line)
                    /\ tags' = Append(tags, tag)
                    /\ stdin_writes' = stdin_writes + 1
                    /\ auth_method_sent' = TRUE
                    /\ ipc' = "loop"
                    /\ UNCHANGED <<pending, ending>>
               ELSE /\ output_lines' = Append(output_lines, line)
                    /\ tags' = Append(tags, tag)
                    /\ ipc' = IF tag = "menu" THEN "loop" ELSE "poll"
                    /\ UNCHANGED <<auth_method_sent, stdin_writes, pending,
                                   ending>>
    /\ UNCHANGED <<config, child, exitcode, emitted, elapsed, term_sent,
                   kill_sent, poll, result>>

\* readline() raises (a line that cannot be decoded): the inner except
\* logs and breaks out of the loop; nothing follows the loop.
ReadError ==
    /\ UNCHANGED besides_ivars
    /\ ipc = "readline"
    /\ pipe # <<>>
    /\ pipe' = Tail(pipe)
    /\ pending' = "None" /\ ending' = "read_error"
    /\ ipc' = "finally"
    /\ UNCHANGED <<config, child, exitcode, emitted, output_lines, tags,
                   auth_method_sent, stdin_writes, elapsed, term_sent,
                   kill_sent, poll, result>>

\* The non-blank lines of the output left in the pipe, as appended after exit.
RECURSIVE Remaining(_)
Remaining(rest) ==
    IF rest = <<>> THEN <<>>
    ELSE IF Head(rest) = BlankLine THEN Remaining(Tail(rest))
    ELSE <<Head(rest)>> \o Remaining(Tail(rest))

\* process.poll() after the line; on exit the result follows the exit code.
Poll ==
    /\ UNCHANGED besides_ivars
    /\ ipc = "poll"
    /\ poll' = exitcode
    /\ IF child = "exited"
       THEN /\ output_lines' = output_lines \o Remaining(pipe)
            /\ pipe' = <<>>
            /\ \E code \in exitcode :
                 /\ pending' = ExitResult(code)
                 /\ config' = IF code = 0
                              THEN [config EXCEPT !.tunnel_configured = TRUE]
                              ELSE config
            /\ ending' = "exit"
            /\ ipc' = "finally"
       ELSE /\ ipc' = "loop"
            /\ UNCHANGED <<config, pipe, output_lines, pending, ending>>
    /\ UNCHANGED <<child, exitcode, emitted, tags, auth_method_sent,
                   stdin_writes, elapsed, term_sent, kill_sent, result>>

\* KeyboardInterrupt inside the try block: no except clause of setup_tunnel
\* catches it, the finally block runs and it propagates.
Interrupt ==
    /\ UNCHANGED besides_ivars
    /\ ipc \in {"loop", "readline", "poll", "to_wait"}
    /\ pending' = "KeyboardInterrupt" /\ ending' = "interrupt"
    /\ ipc' = "finally"
    /\ UNCHANGED <<config, child, exitcode, pipe, emitted, output_lines, tags,
                   auth_method_sent, stdin_writes, elapsed, term_sent,
                   kill_sent, poll, result>>

\* The finally block, then the function is left.  terminate() and
\* wait(timeout=5) when the child is running; TimeoutExpired is swallowed.
\* show_menu has no handler: a KeyboardInterrupt leaves the program.
Finally ==
    /\ UNCHANGED besides_ivars
    /\ ipc = "finally"
    /\ \/ /\ child = "exited"
          /\ UNCHANGED <<child, exitcode, term_sent>>
       \/ /\ child = "running"
          /\ term_sent' = TRUE
          /\ child' = "exited" /\ exitcode' = BySigterm
       \/ /\ child = "running"
          /\ term_sent' = TRUE
          /\ UNCHANGED <<child, exitcode>>
    /\ result' = pending
    /\ ipc' = IF pending = "KeyboardInterrupt" THEN "crashed" ELSE "pause"
    /\ UNCHANGED <<config, pipe, emitted, output_lines, tags,
                   auth_method_sent, stdin_writes, elapsed, kill_sent, poll,
                   pending, ending>>

NextInstaller ==
    \/ MenuDownload \/ MenuExit \/ MenuPause
    \/ SetupTunnelBegin \/ CheckTimeout \/ TimeoutWait
    \/ ReadLine \/ ReadError \/ Poll \/ Interrupt \/ Finally
    \/ ChildEmit \/ ChildExit \/ Tick

SpecInstaller == Init /\ [][NextInstaller]_vars

\* ------------------------------------------------- claims: setup_tunnel
\* setup_tunnel has handed a value to show_menu
Returned == ipc = "pause" /\ ending # "none"

\* the session got as far as launching the child
Launched == ending \in {"timeout", "exit", "read_error", "interrupt"}

SawTag(T) == \E i \in 1..Len(tags) : tags[i] \in T

PromptsRead ==
    Cardinality({i \in 1..Len(output_lines) : output_lines[i] = PromptLine})

\* C1: within one setup_tunnel session the menu-selection response is
\* written to the child's stdin at most once, however many lines read from
\* the child contain the login prompt.
C1_RespondAtMostOnce == stdin_writes <= 1

\* the prompt was read more than once and answered once
C1_Witness == stdin_writes = 1 /\ PromptsRead >= 2

\* C2: once elapsed time exceeds timeout_seconds during monitoring, the
\* harness is not waiting for the child's output or exit: it never sits in
\* a read that cannot return while the bound is already exceeded.
C2_TimeoutNotBlocked ==
    ~(ipc = "readline" /\ ~CanRead /\ elapsed > timeout_seconds)

\* C3: whenever setup_tunnel has been left after the child was launched,
\* by return or by a propagating interrupt, no child is left running.
C3_NoChildLeftRunning ==
    (ipc \in {"pause", "crashed"} /\ Launched) => child = "exited"

C7_InterruptStaysInMenu == ipc # "crashed"

\* C8: once a session has started, setup_tunnel hands its caller True or
\* False on every path by which it returns.
C8_ReturnsIndicator ==
    (Returned /\ Launched) => result \in {"True", "False"}

\* ---------------------------------------------------- setup_github_tunnel
\* The checks before the loop over the approaches.
QuickBegin ==
    /\ UNCHANGED besides_qvars
    /\ qpc = "start"
    /\ \E binaryOk \in BOOLEAN, name \in TunnelNames :
         IF binaryOk /\ name # ""
         THEN /\ qpc' = "next"
              /\ UNCHANGED <<qending, qresult>>
         ELSE /\ qpc' = "done" /\ qending' = "precheck" /\ qresult' = "False"
    /\ UNCHANGED <<approach, qchild, qterm, qpipe, qemitted, qelapsed>>

\* The for loop moves on: Popen of the next approach, or "All approaches
\* failed".  A Popen that raises is caught and the loop goes on.
QuickNextApproach ==
    /\ UNCHANGED besides_qvars
    /\ qpc = "next"
    /\ IF approach = NumApproaches
       THEN /\ qpc' = "done" /\ qending' = "all_failed" /\ qresult' = "False"
            /\ UNCHANGED <<approach, qchild, qpipe, qemitted, qelapsed>>
       ELSE /\ approach' = approach + 1
            /\ UNCHANGED <<qending, qresult>>
            /\ \/ /\ qchild' = [qchild EXCEPT ![approach + 1] = "running"]
                  /\ qpipe' = <<>> /\ qemitted' = 0 /\ qelapsed' = 0
                  /\ qpc' = "cond"
               \/ /\ qpc' = "next"
                  /\ UNCHANGED <<qchild, qpipe, qemitted, qelapsed>>
    /\ UNCHANGED qterm

\* terminate() reaches the process only while it is running
Terminated(a) == [qterm EXCEPT ![a] = qterm[a] \/ qchild[a] = "running"]

\* while time.time() - start_time < 10; its else branch terminates.
QuickCond ==
    /\ UNCHANGED besides_qvars
    /\ qpc = "cond"
    /\ IF qelapsed < monitor_seconds
       THEN /\ qpc' = "readline"
            /\ UNCHANGED qterm
       ELSE /\ qterm' = Terminated(approach)
            /\ qpc' = "next"
    /\ UNCHANGED <<approach, qchild, qpipe, qemitted, qelapsed, qending,
                   qresult>>

\* readline() and the two substring tests; blocks like setup_tunnel's.
QuickReadLine ==
    /\ UNCHANGED besides_qvars
    /\ qpc = "readline"
    /\ qpipe # <<>> \/ qchild[approach] = "exited"
    /\ IF qpipe = <<>>
       THEN /\ qpc' = "poll"
            /\ UNCHANGED <<qpipe, qterm>>
       ELSE LET line == Head(qpipe) IN
            /\ qpipe' = Tail(qpipe)
            /\ IF line = BlankLine
               THEN qpc' = "poll" /\ UNCHANGED qterm
               ELSE IF HasLower(line, "github.com/login/device")
               THEN qpc' = "auth_wait" /\ UNCHANGED qterm
               ELSE IF Has(line, "How would you like to log in")
               THEN qpc' = "next" /\ qterm' = Terminated(approach)
               ELSE qpc' = "poll" /\ UNCHANGED qterm
    /\ UNCHANGED <<approach, qchild, qemitted, qelapsed, qending, qresult>>

\* readline() raises: except Exception prints and the for loop goes on.
QuickReadError ==
    /\ UNCHANGED besides_qvars
    /\ qpc = "readline"
    /\ qpipe # <<>>
    /\ qpipe' = Tail(qpipe)
    /\ qpc' = "next"
    /\ UNCHANGED <<approach, qchild, qterm, qemitted, qelapsed, qending,
                   qresult>>

QuickPoll ==
    /\ UNCHANGED besides_qvars
    /\ qpc = "poll"
    /\ qpc' = IF qchild[approach] = "exited" THEN "next" ELSE "cond"
    /\ UNCHANGED <<approach, qchild, qterm, qpipe, qemitted, qelapsed,
                   qending, qresult>>

\* process.wait(timeout=300) after the device URL was seen: the process
\* ends in time and True is returned, or TimeoutExpired: terminate() and
\* return False.
QuickAuthWait ==
    /\ UNCHANGED besides_qvars
    /\ qpc = "auth_wait"
    /\ \/ /\ qchild[approach] = "exited"
          /\ qending' = "completed" /\ qresult' = "True"
          /\ UNCHANGED <<qchild, qterm>>
       \/ /\ qchild[approach] = "running"
          /\ qchild' = [qchild EXCEPT ![approach] = "exited"]
          /\ qending' = "completed" /\ qresult' = "True"
          /\ UNCHANGED qterm
       \/ /\ qchild[approach] = "running"
          /\ qterm' = Terminated(approach)
          /\ qending' = "timeout" /\ qresult' = "False"
          /\ UNCHANGED qchild
    /\ qpc' = "done"
    /\ UNCHANGED <<approach, qpipe, qemitted, qelapsed>>

QuickRunning == qpc \in {"cond", "readline", "poll", "auth_wait", "next"}

QuickChildEmit ==
    /\ UNCHANGED besides_qvars
    /\ qpc \in {"cond", "readline", "poll"}
    /\ qchild[approach] = "running" /\ qemitted < MaxQuickLines
    /\ \E line \in QuickLines : qpipe' = Append(qpipe, line)
    /\ qemitted' = qemitted + 1
    /\ UNCHANGED <<qpc, approach, qchild, qterm, qelapsed, qending, qresult>>

\* a launched process ends, of its own accord or by a SIGTERM it received
QuickChildExit ==
    /\ UNCHANGED besides_qvars
    /\ QuickRunning
    /\ \E a \in Approaches :
         /\ qchild[a] = "running"
         /\ qchild' = [qchild EXCEPT ![a] = "exited"]
    /\ UNCHANGED <<qpc, approach, qterm, qpipe, qemitted, qelapsed, qending,
                   qresult>>

QuickClock ==
    /\ UNCHANGED besides_qvars
    /\ qpc \in {"cond", "readline", "poll"}
    /\ qelapsed + QuickTick <= QuickMaxClock
    /\ qelapsed' = qelapsed + QuickTick
    /\ UNCHANGED <<qpc, approach, qchild, qterm, qpipe, qemitted, qending,
                   qresult>>

NextQuick ==
    \/ QuickBegin \/ QuickNextApproach \/ QuickCond \/ QuickReadLine
    \/ QuickReadError \/ QuickPoll \/ QuickAuthWait
    \/ QuickChildEmit \/ QuickChildExit \/ QuickClock

SpecQuick == Init /\ [][NextQuick]_vars

\* C4: when a monitoring session times out, the child has been sent
\* terminate and, after the grace period, a kill if it was still alive,
\* before the timed-out result is returned: no child outlives the return.
C4_TimedOutChildStopped ==
    (qpc = "done" /\ qending = "timeout") =>
        (qterm[approach] /\ qchild[approach] = "exited")

\* the same statement for setup_tunnel, which waits and kills
C4_SetupTunnelTimeoutStops ==
    (Returned /\ ending = "timeout") => (child = "exited" /\ result = "False")

\* C15: after an authentication attempt has failed or timed out, no other
\* attempt is launched in the same invocation: setup_github_tunnel starts
\* at most one process.
C15_NoAutomaticRetry ==
    Cardinality({a \in Approaches : qchild[a] # "none"}) <= 1

\* C16: at any moment at most one process launched by the invocation is
\* alive: the next one is launched only after the previous one has ended.
C16_OneChildAtATime ==
    Cardinality({a \in Approaches : qchild[a] = "running"}) <= 1

\* ------------------------------------------------------- CodeServerSetup
\* the name start_vscode_server makes up: f"colab-{int(time.time())}"
GeneratedName == "colab-1700000000"

CodeRunning == \E p \in CodePids : procs[p] = "running"

\* start_vscode_server up to the wait loop: the binary check, the
\* already-running check, the tunnel name and Popen.
StartVsBegin ==
    /\ UNCHANGED besides_svars
    /\ spc = "menu"
    /\ s_op' = "start"
    /\ \E binaryOk \in BOOLEAN, popenOk \in BOOLEAN :
         LET named == IF sconfig.tunnel_name = ""
                      THEN [sconfig EXCEPT !.tunnel_name = GeneratedName]
                      ELSE sconfig IN
         IF ~binaryOk
         THEN /\ s_result' = "False" /\ spc' = "pause"
              /\ UNCHANGED <<sconfig, procs, vs_handle, s_pipe, s_emitted,
                             s_elapsed>>
         ELSE IF CodeRunning
         THEN /\ s_result' = "True" /\ spc' = "pause"
              /\ UNCHANGED <<sconfig, procs, vs_handle, s_pipe, s_emitted,
                             s_elapsed>>
         ELSE IF ~popenOk \/ ~(\E p \in CodePids : procs[p] = "free")
         THEN /\ sconfig' = named
              /\ s_result' = "False" /\ spc' = "pause"
              /\ UNCHANGED <<procs, vs_handle, s_pipe, s_emitted, s_elapsed>>
         ELSE \E p \in CodePids :
              /\ procs[p] = "free"
              /\ sconfig' = named
              /\ procs' = [procs EXCEPT ![p] = "running"]
              /\ vs_handle' = p
              /\ s_pipe' = <<>> /\ s_emitted' = 0 /\ s_elapsed' = 0
              /\ s_result' = "pending" /\ spc' = "vs_loop"
    /\ s_tunnel_url' = ""
    /\ UNCHANGED <<psutil, authenticated, s_stopped>>

\* "if tunnel_url:" after the loop
StoresAlways(url) == TRUE

StoresTunnelInfo(url) == url # ""

\* The configuration after the loop: the URL and the pid are stored when
\* a URL was found.
AfterLoop(cfg, url, pid) ==
    IF StoresTunnelInfo(url)
    THEN [cfg EXCEPT !.tunnel_url = url, !.process_pid = pid]
    ELSE cfg

\* while time.time() - start_time < timeout, and the poll() at its top;
\* past the loop without a URL the function returns True and stores nothing.
StartVsLoop ==
    /\ UNCHANGED besides_svars
    /\ spc = "vs_loop"
    /\ IF s_elapsed < timeout
       THEN IF procs[vs_handle] = "exited"
            THEN s_result' = "False" /\ spc' = "pause" /\ UNCHANGED sconfig
            ELSE spc' = "vs_readline" /\ UNCHANGED <<s_result, sconfig>>
       ELSE /\ sconfig' = AfterLoop(sconfig, s_tunnel_url, vs_handle)
            /\ s_result' = "True" /\ spc' = "pause"
    /\ UNCHANGED <<psutil, authenticated, procs, vs_handle, s_pipe, s_emitted,
                   s_elapsed, s_tunnel_url, s_stopped, s_op>>

\* readline() of the wait loop.  A line with "vscode.dev/tunnel" and a URL
\* ends the loop: the URL and the pid are stored and True is returned.
StartVsReadLine ==
    /\ UNCHANGED besides_svars
    /\ spc = "vs_readline"
    /\ s_pipe # <<>> \/ procs[vs_handle] = "exited"
    /\ IF s_pipe = <<>>
       THEN /\ spc' = "vs_loop"
            /\ UNCHANGED <<s_pipe, s_tunnel_url, sconfig, s_result>>
       ELSE LET line == Head(s_pipe) IN
            /\ s_pipe' = Tail(s_pipe)
            /\ IF Has(line, "vscode.dev/tunnel") /\ FirstUrl(line) # ""
               THEN /\ s_tunnel_url' = FirstUrl(line)
                    /\ sconfig' = AfterLoop(sconfig, FirstUrl(line), vs_handle)
                    /\ s_result' = "True" /\ spc' = "pause"
               ELSE /\ spc' = "vs_loop"
                    /\ UNCHANGED <<s_tunnel_url, sconfig, s_result>>
    /\ UNCHANGED <<psutil, authenticated, procs, vs_handle, s_emitted, s_elapsed, s_stopped,
                   s_op>>

\* readline() raises, KeyboardInterrupt included: the bare except passes.
StartVsReadError ==
    /\ UNCHANGED besides_svars
    /\ spc = "vs_readline"
    /\ \/ s_pipe # <<>> /\ s_pipe' = Tail(s_pipe)
       \/ UNCHANGED s_pipe
    /\ spc' = "vs_loop"
    /\ UNCHANGED <<sconfig, psutil, authenticated, procs, vs_handle, s_emitted, s_elapsed,
                   s_tunnel_url, s_stopped, s_op, s_result>>

\* KeyboardInterrupt outside the readline: start_vscode_server does not
\* catch it, show_interactive_menu does and returns to the menu.
StartVsInterrupt ==
    /\ UNCHANGED besides_svars
    /\ spc = "vs_loop"
    /\ s_result' = "KeyboardInterrupt" /\ spc' = "pause"
    /\ UNCHANGED <<sconfig, psutil, authenticated, procs, vs_handle, s_pipe, s_emitted,
                   s_elapsed, s_tunnel_url, s_stopped, s_op>>

\* processes a terminate() of the psutil fallback reaches
Signalled == {p \in CodePids : procs[p] = "running"}

\* Whether stop_vscode_server clears the stored URL and pid.
ClearsInfoOnlyIfStopped(stopped) == stopped

ClearsInfo(stopped) == TRUE

\* stop_vscode_server.  how: what terminate()/wait(timeout=10) on the
\* handle led to.  "exited": the process ended in time; "killed":
\* TimeoutExpired and kill(); "raised": another exception, passed over.
stop_vscode_server(how) ==
    LET byHandle == vs_handle # 0 /\ how # "raised"
        stopped  == byHandle \/ (psutil /\ Signalled # {}) IN
    /\ (vs_handle = 0 \/ procs[vs_handle] = "exited") => how = "exited"
    /\ procs' = IF byHandle
                THEN [procs EXCEPT ![vs_handle] = "exited"]
                ELSE procs
    /\ s_stopped' = stopped
    /\ sconfig' = IF ClearsInfo(stopped)
                  THEN [sconfig EXCEPT !.tunnel_url = "",
                                       !.process_pid = 0]
                  ELSE sconfig

\* "Stop VSCode Server" of the menu
StopVs ==
    /\ UNCHANGED besides_svars
    /\ spc = "menu"
    /\ s_op' = "stop"
    /\ \E how \in {"exited", "killed", "raised"} :
         /\ stop_vscode_server(how)
         /\ s_result' = IF s_stopped' THEN "True" ELSE "False"
    /\ spc' = "pause"
    /\ UNCHANGED <<psutil, authenticated, vs_handle, s_pipe, s_emitted, s_elapsed,
                   s_tunnel_url>>

\* _create_cloudflare_tunnel: on success the name is stored.
CfCreate ==
    /\ UNCHANGED besides_svars
    /\ spc = "menu"
    /\ s_op' = "cf_create"
    /\ \E ok \in BOOLEAN :
         /\ sconfig' = IF ok THEN [sconfig EXCEPT !.cf_tunnel_name = "colab"]
                             ELSE sconfig
         /\ s_result' = "None"
    /\ spc' = "pause"
    /\ UNCHANGED <<psutil, authenticated, procs, vs_handle, s_pipe, s_emitted, s_elapsed,
                   s_tunnel_url, s_stopped>>

\* _start_cloudflare_tunnel: Popen, then the pid is stored at once.
CfStart ==
    /\ UNCHANGED besides_svars
    /\ spc = "menu"
    /\ s_op' = "cf_start"
    /\ s_result' = "None"
    /\ IF sconfig.cf_tunnel_name = ""
       THEN UNCHANGED <<sconfig, procs>>
       ELSE \/ UNCHANGED <<sconfig, procs>>
            \/ \E p \in CfPids :
                 /\ procs[p] = "free"
                 /\ procs' = [procs EXCEPT ![p] = "running"]
                 /\ sconfig' = [sconfig EXCEPT !.cf_process_pid = p]
    /\ spc' = "pause"
    /\ UNCHANGED <<psutil, authenticated, vs_handle, s_pipe, s_emitted, s_elapsed,
                   s_tunnel_url, s_stopped>>

\* _stop_cloudflare_tunnel: os.kill(pid, SIGTERM).  killed: "delivered",
\* "lookup" for ProcessLookupError, "failed" for any other exception.  The
\* pid is cleared in the first two cases.  s_result keeps what was printed.
CfStop ==
    /\ UNCHANGED besides_svars
    /\ spc = "menu"
    /\ s_op' = "cf_stop"
    /\ IF sconfig.cf_process_pid = 0
       THEN s_result' = "no_pid" /\ UNCHANGED sconfig
       ELSE \E killed \in {"delivered", "lookup", "failed"} :
            /\ killed = "lookup" => procs[sconfig.cf_process_pid] # "running"
            /\ s_result' = killed
            /\ sconfig' = IF killed = "failed" THEN sconfig
                          ELSE [sconfig EXCEPT !.cf_process_pid = 0]
    /\ spc' = "pause"
    /\ UNCHANGED <<psutil, authenticated, procs, vs_handle, s_pipe, s_emitted, s_elapsed,
                   s_tunnel_url, s_stopped>>

\* "Press Enter to continue...": the next round of the menu loop.  The
\* locals of the operation are gone, and nothing reads the stdout of the
\* launched process once start_vscode_server has returned.
SetupPause ==
    /\ UNCHANGED besides_svars
    /\ spc = "pause"
    /\ spc' = "menu"
    /\ s_elapsed' = 0 /\ s_tunnel_url' = "" /\ s_stopped' = FALSE
    /\ s_op' = "none" /\ s_result' = "none"
    /\ s_pipe' = <<>> /\ s_emitted' = 0
    /\ UNCHANGED <<sconfig, psutil, authenticated, procs, vs_handle>>

\* option 0, or Ctrl-C at the menu prompt: the program ends
SetupExit ==
    /\ UNCHANGED besides_svars
    /\ spc = "menu"
    /\ spc' = "exited"
    /\ UNCHANGED <<sconfig, psutil, authenticated, procs, vs_handle, s_pipe, s_emitted,
                   s_elapsed, s_tunnel_url, s_stopped, s_op, s_result>>

\* The script is run again: the configuration file is loaded, the Popen
\* handle of the earlier run is gone, its processes are not.
SetupRestart ==
    /\ UNCHANGED besides_svars
    /\ spc = "exited"
    /\ spc' = "menu"
    /\ vs_handle' = 0
    /\ s_pipe' = <<>> /\ s_emitted' = 0
    /\ UNCHANGED <<sconfig, psutil, authenticated, procs, s_elapsed, s_tunnel_url,
                   s_stopped, s_op, s_result>>

SetupProcEmit ==
    /\ UNCHANGED besides_svars
    /\ spc \in {"vs_loop", "vs_readline"}
    /\ procs[vs_handle] = "running" /\ s_emitted < MaxSetupLines
    /\ \E line \in SetupLines : s_pipe' = Append(s_pipe, line)
    /\ s_emitted' = s_emitted + 1
    /\ UNCHANGED <<spc, sconfig, psutil, authenticated, procs, vs_handle, s_elapsed,
                   s_tunnel_url, s_stopped, s_op, s_result>>

\* a process ends, of its own accord or by a signal it received
SetupProcExit ==
    /\ UNCHANGED besides_svars
    /\ \E p \in Pids :
         /\ procs[p] = "running"
         /\ procs' = [procs EXCEPT ![p] = "exited"]
    /\ UNCHANGED <<spc, sconfig, psutil, authenticated, vs_handle, s_pipe, s_emitted,
                   s_elapsed, s_tunnel_url, s_stopped, s_op, s_result>>

SetupClock ==
    /\ UNCHANGED besides_svars
    /\ spc \in {"vs_loop", "vs_readline"}
    /\ s_elapsed + SetupTick <= SetupMaxClock
    /\ s_elapsed' = s_elapsed + SetupTick
    /\ UNCHANGED <<spc, sconfig, psutil, authenticated, procs, vs_handle, s_pipe, s_emitted,
                   s_tunnel_url, s_stopped, s_op, s_result>>

NextSetup ==
    \/ StartVsBegin \/ StartVsLoop \/ StartVsReadLine \/ StartVsReadError
    \/ StartVsInterrupt \/ StopVs \/ CfCreate \/ CfStart \/ CfStop
    \/ SetupPause \/ SetupExit \/ SetupRestart
    \/ SetupProcEmit \/ SetupProcExit \/ SetupClock

SpecSetup == InitAtSetup /\ [][NextSetup]_vars

\* ------------------------------------------- claims: the tunnel descriptor
\* a step writes a value (not a clearing) into the stored descriptor
WritesName == sconfig'.tunnel_name \notin {"", sconfig.tunnel_name}
WritesUrl == sconfig'.tunnel_url \notin {"", sconfig.tunnel_url}
WritesPid == sconfig'.process_pid \notin {0, sconfig.process_pid}

\* the step read the tunnel URL from the output of the launched process
ConfirmedStart ==
    /\ spc = "vs_readline" /\ s_tunnel_url' # ""
    /\ vs_handle # 0 /\ procs[vs_handle] # "free"

\* C9 (as claimed): name, access URL and process id are written into the
\* configuration only by the step that confirmed the tunnel started.
C9_DescriptorOnlyOnceConfirmed ==
    [][(WritesName \/ WritesUrl \/ WritesPid) => ConfirmedStart]_vars

\* C9 (amended): the access URL and the process id are written only by the
\* step that read the tunnel URL from the child's output, and are that URL
\* and that child's pid; every other step of a start leaves them as they
\* were.  The tunnel name is written before the child is launched, and the
\* Cloudflare pid in the step that launched its process.
C9_UrlAndPidOnlyOnceConfirmed ==
    /\ [][(WritesUrl \/ WritesPid) =>
            /\ ConfirmedStart
            /\ sconfig'.tunnel_url = s_tunnel_url'
            /\ sconfig'.process_pid = vs_handle]_vars
    /\ [][WritesName => (spc = "menu" /\ s_op' = "start")]_vars
    /\ [][sconfig'.cf_process_pid \notin {0, sconfig.cf_process_pid} =>
            /\ spc = "menu" /\ s_op' = "cf_start"
            /\ procs[sconfig'.cf_process_pid] = "free"
            /\ procs'[sconfig'.cf_process_pid] = "running"]_vars

\* a start has stored the URL it read and the pid of its child
C9_Witness ==
    /\ spc = "pause" /\ s_op = "start" /\ s_result = "True"
    /\ sconfig.tunnel_url # "" /\ sconfig.process_pid = vs_handle
    /\ vs_handle # 0

\* the step is a complete run of stop_vscode_server
StopStep == spc = "menu" /\ s_op' = "stop"

\* C10 (as claimed): a stop that confirmed a process stopped clears the
\* stored URL and pid, and a stop that confirmed none leaves them.
C10_ClearedOnlyIfStopped ==
    [][StopStep =>
         IF s_stopped'
         THEN sconfig'.tunnel_url = "" /\ sconfig'.process_pid = 0
         ELSE /\ sconfig'.tunnel_url = sconfig.tunnel_url
              /\ sconfig'.process_pid = sconfig.process_pid]_vars

\* C10 (amended): stop_vscode_server clears the stored URL and pid
\* whenever it runs to its end, whether or not it stopped a process;
\* _stop_cloudflare_tunnel clears the stored pid when the signal was
\* delivered or the process does not exist.
C10_ClearedAfterStop ==
    /\ (spc = "pause" /\ s_op = "stop") =>
           (sconfig.tunnel_url = "" /\ sconfig.process_pid = 0)
    /\ (spc = "pause" /\ s_op = "cf_stop"
           /\ s_result \in {"delivered", "lookup"}) =>
           sconfig.cf_process_pid = 0

\* a stop that stopped nothing has run, with a tunnel name on record
C10_Witness ==
    /\ spc = "pause" /\ s_op = "stop" /\ ~s_stopped
    /\ sconfig.tunnel_name # "" /\ sconfig.tunnel_url = ""

\* C17: the tunnel-creation command is launched only once the user is
\* authenticated: with no login in place no `code tunnel` process is started.
C17_TunnelOnlyAfterAuth ==
    [][(vs_handle' # vs_handle /\ vs_handle' # 0) => authenticated]_vars

\* ===================================================== configuration merge
\* load_config of ConfigManager: _merge_config(DEFAULT_CONFIG, config)
MergeConfig ==
    /\ UNCHANGED besides_mvars
    /\ mpc = "input"
    /\ m_result' = merge_config(m_default, m_user)
    /\ mpc' = "merged"
    /\ UNCHANGED <<m_default, m_user, m_again, m_flat, m_flat_again>>

\* the next load_config, of the file save_config wrote from that result
MergeSaved ==
    /\ UNCHANGED besides_mvars
    /\ mpc = "merged"
    /\ m_again' = merge_config(m_default, m_result)
    /\ mpc' = "remerged"
    /\ UNCHANGED <<m_default, m_user, m_result, m_flat, m_flat_again>>

\* load_config of VSCodeServerInstaller
FillMissing ==
    /\ UNCHANGED besides_mvars
    /\ mpc = "remerged"
    /\ m_flat' = fill_missing(m_default, m_user)
    /\ mpc' = "filled"
    /\ UNCHANGED <<m_default, m_user, m_result, m_again, m_flat_again>>

\* its next load_config, of the file save_config wrote from that result
FillSaved ==
    /\ UNCHANGED besides_mvars
    /\ mpc = "filled"
    /\ m_flat_again' = fill_missing(m_default, m_flat)
    /\ mpc' = "refilled"
    /\ UNCHANGED <<m_default, m_user, m_result, m_again, m_flat>>

NextMerge == MergeConfig \/ MergeSaved \/ FillMissing \/ FillSaved

SpecMerge == InitAtMerge /\ [][NextMerge]_vars

\* C11: merging the defaults into an already merged configuration changes
\* nothing: merge(defaults, merge(defaults, user)) = merge(defaults, user),
\* for _merge_config and for the merge of the installer's load_config.
C11_MergeIdempotent ==
    /\ mpc \in {"remerged", "filled", "refilled"} => m_again = m_result
    /\ mpc = "refilled" => m_flat_again = m_flat

\* C11 witness: a second merge happened on a result that differs from both
\* of its arguments
C11_Witness ==
    /\ mpc = "remerged"
    /\ m_result # m_default /\ m_result # m_user
    /\ \E key \in DOMAIN m_result :
          /\ key \in DOMAIN m_default /\ key \in DOMAIN m_user
          /\ IsDict(m_result[key])
          /\ m_result[key] # m_default[key] /\ m_result[key] # m_user[key]

\* At one level of a merge: a key the user document lacks has the default
\* value, a key both have as mappings obeys the same rule one level down,
\* and every other key of the user document has the user's value.
RECURSIVE KeepsOverrides(_, _, _)
KeepsOverrides(default, user, merged) ==
    /\ DOMAIN merged = DOMAIN default \cup DOMAIN user
    /\ \A key \in DOMAIN merged :
          IF key \notin DOMAIN user THEN merged[key] = default[key]
          ELSE IF /\ key \in DOMAIN default
                  /\ IsDict(default[key]) /\ IsDict(user[key])
               THEN /\ IsDict(merged[key])
                    /\ KeepsOverrides(default[key][2], user[key][2],
                                      merged[key][2])
               ELSE merged[key] = user[key]

\* C12: the merged configuration keeps the user's value for every key both
\* documents have and holds the default for every key only the defaults
\* have; _merge_config does so at every level where both sides are
\* mappings, the installer's load_config at the top level.
C12_MergeKeepsOverrides ==
    /\ mpc # "input" => KeepsOverrides(m_default, m_user, m_result)
    /\ mpc \in {"filled", "refilled"} =>
          /\ \A key \in DOMAIN m_user : m_flat[key] = m_user[key]
          /\ \A key \in DOMAIN m_default \ DOMAIN m_user :
                m_flat[key] = m_default[key]

\* C12 witness: a merge of two documents that differ in a primitive setting
\* and share a section in which the user overrides one key with another
\* value and lacks a key the defaults have
C12_Witness ==
    /\ mpc = "merged"
    /\ DOMAIN m_default = TopKeys /\ DOMAIN m_user = TopKeys
    /\ ~IsDict(m_default["server_type"]) /\ ~IsDict(m_user["server_type"])
    /\ m_default["server_type"] # m_user["server_type"]
    /\ IsDict(m_default["code_server"]) /\ IsDict(m_user["code_server"])
    /\ DOMAIN m_default["code_server"][2] = SubKeys
    /\ DOMAIN m_user["code_server"][2] = {"port"}
    /\ m_user["code_server"][2]["port"] # m_default["code_server"][2]["port"]
    /\ m_result["code_server"][2]["port"] = m_user["code_server"][2]["port"]
    /\ m_result["code_server"][2]["auth"] = m_default["code_server"][2]["auth"]

\* ================================================== the configuration file
\* what load_config returns for a file
Loaded(prog, file) ==
    IF ~file.exists THEN Defaults(prog)
    ELSE LET r == json_load(file.text)
         IN IF r.ok /\ IsDict(r.value)
            THEN IF prog = "setup"
                 THEN merge_config(DEFAULT_CONFIG, r.value[2])
                 ELSE fill_missing(default_config, r.value[2])
            ELSE Defaults(prog)

\* the sections of DEFAULT_CONFIG that default.copy() hands on as they are
SharedSections(file) ==
    LET r == json_load(file.text)
        sections == {k \in DOMAIN DEFAULT_CONFIG : IsDict(DEFAULT_CONFIG[k])}
    IN IF file.exists /\ r.ok /\ IsDict(r.value)
       THEN sections \ DOMAIN r.value[2]
       ELSE sections

\* construction of ConfigManager or of VSCodeServerInstaller: load_config
CfgLoad ==
    /\ UNCHANGED besides_cvars
    /\ cpc = "start"
    /\ cconfig' = Loaded(cprog, cfile)
    /\ caliased' = IF cprog = "setup" THEN SharedSections(cfile) ELSE {}
    /\ cpc' = "ready"
    /\ UNCHANGED <<cprog, cfile, cdefaults, cbefore, creloaded, cdirty>>

\* the key paths the operations of CodeServerSetup write
SetPaths ==
    {<<"server_type">>, <<"code_server", "port">>,
     <<"extension_registry", "hybrid_mode">>}

\* ConfigManager.set(key_path, value), which ends with save_config()
CfgSet ==
    /\ UNCHANGED besides_cvars
    /\ cprog = "setup" /\ cpc = "ready"
    /\ \E path \in SetPaths, value \in PrimValues :
          IF Len(path) = 1
          THEN /\ cconfig' = (path[1] :> value) @@ cconfig
               /\ caliased' = caliased \ {path[1]}
               /\ cfile' = [exists |-> TRUE,
                            text |-> json_dump(Dict(cconfig'))]
               /\ cdirty' = TRUE
               /\ UNCHANGED <<cpc, cdefaults>>
          ELSE LET section == IF path[1] \in DOMAIN cconfig
                              THEN cconfig[path[1]] ELSE Dict(<<>>)
                   written == Dict((path[2] :> value) @@ section[2])
               IN IF IsDict(section)
                  THEN /\ cconfig' = (path[1] :> written) @@ cconfig
                       /\ cdefaults' = IF path[1] \in caliased
                                        THEN (path[1] :> written) @@ cdefaults
                                        ELSE cdefaults
                       /\ cfile' = [exists |-> TRUE,
                                    text |-> json_dump(Dict(cconfig'))]
                       /\ cdirty' = TRUE
                       /\ UNCHANGED <<cpc, caliased>>
                  ELSE \* item assignment on a primitive raises TypeError
                       /\ cpc' = "error"
                       /\ UNCHANGED <<cconfig, cdefaults, caliased, cfile,
                                      cdirty>>
    /\ UNCHANGED <<cprog, cbefore, creloaded>>

\* the keys the installer and its test assign
AssignKeys == {"tunnel_name", "server_installed", "test_key"}

\* self.config[key] = value followed by self.save_config()
CfgAssign ==
    /\ UNCHANGED besides_cvars
    /\ cprog = "installer" /\ cpc = "ready"
    /\ \E key \in AssignKeys, value \in PrimValues :
          cconfig' = (key :> value) @@ cconfig
    /\ cfile' = [exists |-> TRUE, text |-> json_dump(Dict(cconfig'))]
    /\ cdirty' = TRUE
    /\ UNCHANGED <<cprog, cpc, cdefaults, caliased, cbefore, creloaded>>

\* the program ends and is started again: a fresh instance, a fresh
\* DEFAULT_CONFIG, the same file
CfgRestart ==
    /\ UNCHANGED besides_cvars
    /\ cpc \in {"ready", "error"}
    /\ cpc' = "start"
    /\ cbefore' = cconfig
    /\ cconfig' = <<>> /\ cdefaults' = Defaults(cprog) /\ caliased' = {}
    /\ creloaded' = TRUE /\ cdirty' = FALSE
    /\ UNCHANGED <<cprog, cfile>>

\* _reset_config, confirmed with "yes": self.config.config =
\* DEFAULT_CONFIG.copy(), a copy of the top level only, then save_config()
CfgReset ==
    /\ UNCHANGED besides_cvars
    /\ cprog = "setup" /\ cpc = "ready"
    /\ cconfig' = cdefaults
    /\ caliased' = {k \in DOMAIN cdefaults : IsDict(cdefaults[k])}
    /\ cfile' = [exists |-> TRUE, text |-> json_dump(Dict(cconfig'))]
    /\ cdirty' = TRUE
    /\ UNCHANGED <<cprog, cpc, cdefaults, cbefore, creloaded>>

NextConfig == CfgLoad \/ CfgSet \/ CfgAssign \/ CfgReset \/ CfgRestart

SpecConfig == InitAtConfig /\ [][NextConfig]_vars

\* the default keys the configuration still has: at the top level, and
\* inside every default section that is still a section
HasDefaultKeys(prog, cfg) ==
    \A k \in DOMAIN Defaults(prog) :
        /\ k \in DOMAIN cfg
        /\ IsDict(Defaults(prog)[k]) /\ IsDict(cfg[k]) =>
              DOMAIN Defaults(prog)[k][2] \subseteq DOMAIN cfg[k][2]

\* C13: a round trip through the file loses nothing: a fresh instance
\* loads exactly the configuration the previous instance held, every
\* value that instance set included, and no loaded configuration lacks a
\* default key.
C13_RoundTripKeepsKeys ==
    cpc = "ready" =>
        /\ HasDefaultKeys(cprog, cconfig)
        /\ creloaded /\ ~cdirty => cconfig = cbefore

\* C13 witness: a fresh instance has loaded a file the previous instance
\* saved after setting keys, among them one the defaults do not have
C13_Witness ==
    /\ cpc = "ready" /\ creloaded /\ ~cdirty
    /\ cconfig # Defaults(cprog)
    /\ \/ /\ cprog = "setup"
          /\ "extension_registry" \in DOMAIN cconfig
          /\ cconfig["code_server"] # DEFAULT_CONFIG["code_server"]
       \/ /\ cprog = "installer"
          /\ "test_key" \in DOMAIN cconfig

\* the file is there and load_config cannot use it
Unusable(file) ==
    /\ file.exists
    /\ LET r == ParseValue(file.text, 1)
       IN ~(r.ok /\ r.next = Len(file.text) + 1 /\ IsDict(r.value))

\* C14: loading a file that cannot be parsed yields exactly the
\* compiled-in defaults, and the load leaves the file as it is.
C14_CorruptFileShadowed ==
    /\ [](cpc = "ready" /\ ~cdirty /\ Unusable(cfile) =>
             cconfig = Defaults(cprog))
    /\ [][cpc = "start" /\ cpc' = "ready" => cfile' = cfile]_vars

\* C14 witness: an instance has loaded a file that stops in the middle of
\* a section
C14_Witness ==
    /\ cpc = "ready" /\ ~cdirty /\ Unusable(cfile)
    /\ Len(cfile.text) >= 4
    /\ cfile.text[2] = <<"key", "code_server">>
    /\ cfile.text[4][1] = "key"

\* ====================================================== the shim injector
\* The content of extension.js is a sequence of parts: "polyfill" is what
\* the normal injection puts in front (its marker and the shim, which
\* holds the string the injection looks for), "aggressive" what the
\* aggressive fix puts in front, "original" the code of the extension.

\* what a write that raises part-way leaves behind: the beginning of the
\* text it was writing, or nothing at all
CutShort(text) == {SubSeq(text, 1, n) : n \in 0..(Len(text) - 1)}

\* where fix_crypto_extensions and the other callers go after the normal
\* injection: the aggressive fix runs when nothing was injected
AfterInjection(driver, injected) ==
    IF driver = "fix" /\ injected = 0 THEN "a_backup" ELSE "idle"

\* a menu function calls _inject_crypto_polyfill_to_extensions
ShimBegin ==
    /\ UNCHANGED besides_hvars
    /\ hpc = "idle" /\ Len(h_file) < MaxParts
    /\ h_driver' \in {"fix", "inject"}
    /\ h_injected' = 0
    /\ hpc' = "n_backup"
    /\ UNCHANGED <<h_file, h_backup, h_original>>

\* "Create backup first": shutil.copy2 unless the backup exists.  A copy
\* that raises leaves no backup or the beginning of one.
InjectBackup ==
    /\ UNCHANGED besides_hvars
    /\ hpc = "n_backup"
    /\ IF h_backup # {}
       THEN hpc' = "n_write" /\ UNCHANGED h_backup
       ELSE \/ h_backup' = {h_file} /\ hpc' = "n_write"
            \/ /\ h_backup' \in {{}} \cup {{c} : c \in CutShort(h_file)}
               /\ hpc' = "n_restore"
    /\ UNCHANGED <<h_driver, h_file, h_original, h_injected>>

\* read the file; unless it already holds the polyfill, write the
\* polyfill followed by the content read
InjectWrite ==
    /\ UNCHANGED besides_hvars
    /\ hpc = "n_write"
    /\ IF \E i \in 1..Len(h_file) : h_file[i] = "polyfill"
       THEN /\ hpc' = AfterInjection(h_driver, h_injected)
            /\ UNCHANGED <<h_file, h_injected>>
       ELSE \/ /\ h_file' = <<"polyfill">> \o h_file
               /\ h_injected' = h_injected + 1
               /\ hpc' = AfterInjection(h_driver, h_injected')
            \/ /\ h_file' \in {h_file} \cup CutShort(<<"polyfill">> \o h_file)
               /\ hpc' = "n_restore"
               /\ UNCHANGED h_injected
    /\ UNCHANGED <<h_driver, h_backup, h_original>>

\* except Exception: copy the backup over the file if there is one; a
\* copy that raises is passed over
InjectRestore ==
    /\ UNCHANGED besides_hvars
    /\ hpc = "n_restore"
    /\ IF h_backup = {}
       THEN UNCHANGED h_file
       ELSE \E b \in h_backup : h_file' \in {b, h_file} \cup CutShort(b)
    /\ hpc' = AfterInjection(h_driver, h_injected)
    /\ UNCHANGED <<h_driver, h_backup, h_original, h_injected>>

\* _create_aggressive_crypto_fix: read the content and write it to
\* extension.js.original unless that exists
AggressiveBackup ==
    /\ UNCHANGED besides_hvars
    /\ hpc = "a_backup"
    /\ IF h_original # {}
       THEN hpc' = "a_write" /\ UNCHANGED h_original
       ELSE \/ h_original' = {h_file} /\ hpc' = "a_write"
            \/ /\ h_original' \in {{}} \cup {{c} : c \in CutShort(h_file)}
               /\ hpc' = "a_restore"
    /\ UNCHANGED <<h_driver, h_file, h_backup, h_injected>>

\* new_content = crypto_replacement + content, written over the file
AggressiveWrite ==
    /\ UNCHANGED besides_hvars
    /\ hpc = "a_write"
    /\ \/ h_file' = <<"aggressive">> \o h_file /\ hpc' = "idle"
       \/ /\ h_file' \in {h_file} \cup CutShort(<<"aggressive">> \o h_file)
          /\ hpc' = "a_restore"
    /\ UNCHANGED <<h_driver, h_backup, h_original, h_injected>>

\* except Exception: write the content of extension.js.original over the
\* file if it exists; a failure of that is passed over
AggressiveRestore ==
    /\ UNCHANGED besides_hvars
    /\ hpc = "a_restore"
    /\ IF h_original = {}
       THEN UNCHANGED h_file
       ELSE \E b \in h_original : h_file' \in {b, h_file} \cup CutShort(b)
    /\ hpc' = "idle"
    /\ UNCHANGED <<h_driver, h_backup, h_original, h_injected>>

NextShim ==
    \/ ShimBegin \/ InjectBackup \/ InjectWrite \/ InjectRestore
    \/ AggressiveBackup \/ AggressiveWrite \/ AggressiveRestore

SpecShim == Init /\ [][NextShim]_vars

\* a whole copy of the extension file: it ends with the extension's code
Whole(content) == content # <<>> /\ content[Len(content)] = "original"

\* the backup the function at work uses
BackupInUse == IF hpc \in {"n_write", "n_restore"} THEN h_backup ELSE h_original

\* C18: whenever the injector writes to an extension file a backup of that
\* file exists beforehand, and when the modification has failed the file
\* comes out of the handler with the content of that backup.
C18_BackupBeforeWriteAndRestore ==
    /\ [][(h_file' # h_file) =>
             (\E b \in BackupInUse : Whole(b))]_vars
    /\ [][(hpc \in {"n_restore", "a_restore"} /\ BackupInUse # {}) =>
             (h_file' \in BackupInUse)]_vars

\* ============================================ code-server: start and stop
\* _is_code_server_running: a process whose command line holds
\* "code-server" exists (psutil.process_iter, or pgrep -f without psutil)
is_code_server_running == \E p \in ServerPids : kprocs[p] = "running"

\* the already-running check of start_code_server left out
StartsAnyway(running) == FALSE

\* start_code_server refuses when the check finds a server
AlreadyRunning(running) == running

\* the operating system hands out the lowest process id not yet used
NextPid ==
    CHOOSE p \in ServerPids :
        kprocs[p] = "free" /\ \A q \in ServerPids : q < p => kprocs[q] # "free"

\* what the operations leave alone in the state of the tunnel operations
ServerFrame ==
    UNCHANGED <<besides_kvars, sconfig, psutil, authenticated, procs,
                vs_handle, s_pipe, s_emitted, s_elapsed, s_tunnel_url,
                s_stopped>>

\* start_code_server up to Popen: the already-running check, the binary
\* check, the configuration file, and Popen, or the fallback Popen of the
\* handler when an exception was raised on the way.
StartCodeServer ==
    /\ ServerFrame
    /\ spc = "menu"
    /\ s_op' = "cs_start"
    /\ UNCHANGED <<k_signal, k_iter, k_proc, k_killed, k_found>>
    /\ \E installed \in BOOLEAN, configured \in BOOLEAN, popenOk \in BOOLEAN :
         IF AlreadyRunning(is_code_server_running)
         THEN /\ s_result' = "already_running" /\ spc' = "pause"
              /\ UNCHANGED kprocs
         ELSE IF ~installed
         THEN /\ s_result' = "not_installed" /\ spc' = "pause"
              /\ UNCHANGED kprocs
         ELSE IF ~configured
         THEN /\ s_result' = "no_config" /\ spc' = "pause"
              /\ UNCHANGED kprocs
         ELSE IF ~popenOk \/ ~(\E p \in ServerPids : kprocs[p] = "free")
         THEN /\ s_result' = "failed" /\ spc' = "pause"
              /\ UNCHANGED kprocs
         ELSE /\ kprocs' = [kprocs EXCEPT ![NextPid] = "running"]
              /\ s_result' = "pending" /\ spc' = "cs_started"

\* time.sleep(3), then _is_code_server_running decides the message
StartCodeServerCheck ==
    /\ ServerFrame
    /\ spc = "cs_started"
    /\ s_result' = IF is_code_server_running THEN "started" ELSE "failed"
    /\ spc' = "pause"
    /\ UNCHANGED <<s_op, kprocs, k_signal, k_iter, k_proc, k_killed,
                   k_found>>

\* what pkill -f code-server does: SIGTERM to every matching process
Pkill(signals) ==
    [p \in ServerPids |->
        IF kprocs[p] = "running" THEN "term" ELSE signals[p]]

\* where stop_code_server returns to: the menu loop, or
\* _switch_to_vscode_server, which goes on to set the server type
AfterStop(op) == IF op = "switch_vs" THEN "sw_set" ELSE "pause"

\* stop_code_server up to the search for processes; without psutil the
\* whole of the system command.  outcome: pkill ran ("ran"), timed out
\* after 10 seconds ("timeout") or could not be run ("error").
EnterStop(op) ==
    /\ s_op' = op
    /\ k_proc' = 0
    /\ UNCHANGED kprocs
    /\ IF ~is_code_server_running
       THEN /\ s_result' = "not_running" /\ spc' = AfterStop(op)
            /\ UNCHANGED <<k_signal, k_iter, k_killed, k_found>>
       ELSE IF psutil
       THEN /\ k_iter' = {p \in ServerPids : kprocs[p] = "running"}
            /\ k_killed' = FALSE /\ k_found' = 0
            /\ s_result' = "pending" /\ spc' = "cs_iter"
            /\ UNCHANGED k_signal
       ELSE \E outcome \in {"ran", "timeout", "error"} :
            /\ k_signal' = IF outcome = "error" THEN k_signal
                           ELSE Pkill(k_signal)
            /\ k_killed' = (outcome # "error")
            /\ k_found' = IF outcome = "ran" THEN 1 ELSE 0
            /\ k_iter' = {}
            /\ s_result' = "pending" /\ spc' = "cs_verify"

\* "Stop Code Server" of the menu
StopCodeServer ==
    /\ ServerFrame
    /\ spc = "menu"
    /\ EnterStop("cs_stop")

\* one turn of "for proc in psutil.process_iter": a process that is gone
\* is not yielded, or is yielded and terminate() raises NoSuchProcess;
\* one that runs is counted and sent terminate()
StopIterate ==
    /\ ServerFrame
    /\ spc = "cs_iter"
    /\ UNCHANGED <<s_op, s_result, kprocs>>
    /\ IF k_iter = {}
       THEN /\ spc' = "cs_verify"
            /\ UNCHANGED <<k_signal, k_iter, k_proc, k_killed, k_found>>
       ELSE \E p \in k_iter :
            /\ k_iter' = k_iter \ {p}
            /\ IF kprocs[p] = "running"
               THEN /\ k_found' = k_found + 1
                    /\ k_signal' = [k_signal EXCEPT ![p] = "term"]
                    /\ k_killed' = TRUE
                    /\ k_proc' = p /\ spc' = "cs_wait"
               ELSE /\ k_found' \in {k_found, k_found + 1}
                    /\ spc' = "cs_iter"
                    /\ UNCHANGED <<k_signal, k_proc, k_killed>>

\* proc.wait(timeout=3): the process has exited, or TimeoutExpired and
\* proc.kill()
StopWait ==
    /\ ServerFrame
    /\ spc = "cs_wait"
    /\ IF kprocs[k_proc] = "running"
       THEN /\ k_signal' = [k_signal EXCEPT ![k_proc] = "kill"]
            /\ kprocs' = [kprocs EXCEPT ![k_proc] = "exited"]
       ELSE UNCHANGED <<k_signal, kprocs>>
    /\ k_proc' = 0 /\ spc' = "cs_iter"
    /\ UNCHANGED <<s_op, s_result, k_iter, k_killed, k_found>>

\* time.sleep(1), then the verification and the message
StopVerify ==
    /\ ServerFrame
    /\ spc = "cs_verify"
    /\ s_result' =
         IF is_code_server_running THEN "still_running"
         ELSE IF k_killed /\ k_found > 0 THEN "stopped"
         ELSE IF k_found = 0 THEN "none_found"
         ELSE "stopped"
    /\ spc' = AfterStop(s_op)
    /\ k_killed' = FALSE /\ k_found' = 0
    /\ UNCHANGED <<s_op, kprocs, k_signal, k_iter, k_proc>>

\* Ctrl-C while stop_code_server is at work
StopInterrupt ==
    /\ ServerFrame
    /\ spc \in {"cs_iter", "cs_wait", "cs_verify"}
    /\ s_result' = "interrupted" /\ spc' = AfterStop(s_op)
    /\ k_iter' = {} /\ k_proc' = 0 /\ k_killed' = FALSE /\ k_found' = 0
    /\ UNCHANGED <<s_op, kprocs, k_signal>>

\* a running code-server starts a helper process of its own, whose command
\* line holds "code-server" as well
ServerFork ==
    /\ ServerFrame
    /\ is_code_server_running
    /\ \E p \in ServerPids : kprocs[p] = "free"
    /\ kprocs' = [kprocs EXCEPT ![NextPid] = "running"]
    /\ UNCHANGED <<spc, s_op, s_result, k_signal, k_iter, k_proc, k_killed,
                   k_found>>

\* a code-server process ends, of its own accord or by SIGTERM
ServerExit ==
    /\ ServerFrame
    /\ \E p \in ServerPids :
         /\ kprocs[p] = "running"
         /\ kprocs' = [kprocs EXCEPT ![p] = "exited"]
    /\ UNCHANGED <<spc, s_op, s_result, k_signal, k_iter, k_proc, k_killed,
                   k_found>>

NextCodeServer ==
    \/ StartCodeServer \/ StartCodeServerCheck
    \/ StopCodeServer \/ StopIterate \/ StopWait \/ StopVerify
    \/ StopInterrupt \/ ServerFork \/ ServerExit
    \/ SetupPause

SpecCodeServer == InitAtSetup /\ [][NextCodeServer]_vars

\* stop_code_server has run to its end and told the operator the outcome
StopReported ==
    /\ spc = "pause" /\ s_op = "cs_stop"
    /\ s_result \in {"stopped", "still_running", "none_found"}

\* C20: when stop_code_server has run, every code-server process it sent
\* a graceful terminate has exited or has been force-killed, and when it
\* reports that the server stopped successfully no code-server process
\* is running.
C20_StopTerminatesThenKills ==
    /\ StopReported =>
          \A p \in ServerPids : k_signal[p] = "term" => kprocs[p] = "exited"
    /\ (StopReported /\ s_result = "stopped") => ~is_code_server_running

\* ------------------------------------------- starting either server
\* the two start operations of the menu and what the processes do
NextStart ==
    \/ StartCodeServer \/ StartCodeServerCheck \/ ServerFork \/ ServerExit
    \/ StartVsBegin \/ StartVsLoop \/ StartVsReadLine \/ StartVsReadError
    \/ StartVsInterrupt \/ SetupProcEmit \/ SetupProcExit \/ SetupClock
    \/ SetupPause

SpecStart == InitAtSetup /\ [][NextStart]_vars

Count(line, lines) == Cardinality({i \in 1..Len(lines) : lines[i] = line})

\* What setup_tunnel prints for a classified line: a notice for the
\* prompt it answers, a menu line while unanswered and seen fewer than
\* three times, any other line unless it holds a UI artifact (a
\* timestamped info or error line is printed without its stamp).  The
\* menu cursor, code point U+276F, is named by its code point.
Display(line, tag, sent, lines) ==
    IF tag = "prompt" THEN "notice"
    ELSE IF tag = "menu"
         THEN IF ~sent /\ Count(line, lines) < 3 THEN "shown" ELSE "hidden"
    ELSE IF tag # "other" THEN "shown"
    ELSE IF ~(\/ Has(line, "*") \/ Has(line, "[?25l")
              \/ Has(line, "U+276F") \/ Has(line, "[2025-"))
         THEN "shown"
    ELSE IF /\ Has(line, "[2025-")
            /\ (HasLower(line, "info") \/ HasLower(line, "error"))
         THEN "shown"
    ELSE "hidden"

\* one readline() of a session and the handling of the line (the child
\* is alive: the answer to the prompt can be written)
ScanLine ==
    /\ UNCHANGED besides_ovars
    /\ o_pos < Len(o_input)
    /\ LET line == o_input[o_pos + 1]
           lines == Append(o_output_lines, line)
           tag == IF line = BlankLine THEN "none"
                  ELSE Classify(line, o_sent)
           shown == IF line = BlankLine THEN "hidden"
                    ELSE Display(line, tag, o_sent, lines) IN
       /\ o_output_lines' = lines
       /\ o_sent' = (o_sent \/ tag = "prompt")
       /\ o_log' = [o_log EXCEPT ![o_pass] =
                       Append(@, [line |-> line, sent |-> o_sent,
                                  seen |-> Count(line, o_output_lines),
                                  tag |-> tag, shown |-> shown])]
    /\ o_pos' = o_pos + 1
    /\ UNCHANGED <<o_input, o_pass>>

\* the session is over and setup_tunnel is called again on a child that
\* prints the same lines
ScanReplay ==
    /\ UNCHANGED besides_ovars
    /\ o_pass = 1 /\ o_pos = Len(o_input)
    /\ o_pass' = 2 /\ o_pos' = 0
    /\ o_output_lines' = FreshTranscript(o_output_lines)
    /\ o_sent' = FALSE
    /\ UNCHANGED <<o_input, o_log>>

NextScan == ScanLine \/ ScanReplay

SpecScan == InitAtScan /\ [][NextScan]_vars

\* every decision the scanner has taken, in either session
Decisions ==
    UNION {{o_log[session][i] : i \in 1..Len(o_log[session])} :
           session \in {1, 2}}

\* the replay has so far decided as the first session did
ReplayAgrees ==
    /\ Len(o_log[2]) <= Len(o_log[1])
    /\ \A i \in 1..Len(o_log[2]) : o_log[2][i] = o_log[1][i]

Parameters == {"capture_output"}

\* SystemUtils.run_command(command, **keywords): subprocess.run with
\* check=True.  A keyword that is no parameter raises TypeError at the
\* call; a missing binary makes subprocess.run raise FileNotFoundError,
\* which the function does not catch; CalledProcessError gives False.
run_command(binary, keywords, exit) ==
    IF ~(keywords \subseteq Parameters)
    THEN [launched |-> 0, ret |-> "none", raised |-> "TypeError"]
    ELSE IF binary \notin r_bins
    THEN [launched |-> 0, ret |-> "none", raised |-> "FileNotFoundError"]
    ELSE [launched |-> 1, ret |-> IF exit = 0 THEN "True" ELSE "False",
          raised |-> ""]

ExitStatus == {0, 1}

\* what the operations leave alone in the state of the program
CommandFrame ==
    UNCHANGED <<besides_rvars, kvars, r_bins, sconfig, psutil, authenticated,
                procs, vs_handle, s_pipe, s_emitted, s_elapsed, s_tunnel_url,
                s_stopped>>

\* _cloudflare_login, option 1: run_command(["cloudflared", "tunnel",
\* "login"]) with no handler around it
CloudflareLogin ==
    /\ CommandFrame
    /\ spc = "menu" /\ r_launched < MaxCommands
    /\ s_op' = "cf_login" /\ spc' = "pause"
    /\ \E exit \in ExitStatus :
         LET run == run_command("cloudflared", {}, exit) IN
         /\ r_launched' = r_launched + run.launched
         /\ r_raised' = run.raised
         /\ s_result' = IF run.raised # "" THEN "raised"
                        ELSE IF run.ret = "True" THEN "logged_in"
                        ELSE "failed"
    /\ UNCHANGED r_tried

\* _list_extensions: the binary is looked for before run_command
ListExtensions ==
    /\ CommandFrame
    /\ spc = "menu" /\ r_launched < MaxCommands
    /\ s_op' = "list_extensions" /\ spc' = "pause"
    /\ IF "code-server" \notin r_bins
       THEN /\ s_result' = "not_installed"
            /\ r_raised' = "" /\ UNCHANGED r_launched
       ELSE \E exit \in ExitStatus :
            LET run == run_command("code-server", {}, exit) IN
            /\ r_launched' = r_launched + run.launched
            /\ r_raised' = run.raised
            /\ s_result' = IF run.raised # "" THEN "raised"
                           ELSE IF run.ret = "True" THEN "listed"
                           ELSE "failed"
    /\ UNCHANGED r_tried

\* _install_extension_direct: run_command inside try/except Exception
install_extension_direct(exit) ==
    LET run == run_command("code-server", {}, exit) IN
    [launched |-> run.launched,
     ret |-> IF run.raised # "" THEN "False" ELSE run.ret]

\* _install_extension_hybrid: the direct install, and when that fails
\* run_command(..., env=env) for Open VSX
InstallExtensionHybrid ==
    /\ CommandFrame
    /\ spc = "menu" /\ r_launched + 1 < MaxCommands
    /\ s_op' = "install_hybrid" /\ spc' = "pause"
    /\ \E exit1 \in ExitStatus, exit2 \in ExitStatus :
         LET direct == install_extension_direct(exit1)
             fallback == run_command("code-server", {"env"}, exit2) IN
         IF direct.ret = "True"
         THEN /\ r_tried' = <<"microsoft:True">>
              /\ r_launched' = r_launched + direct.launched
              /\ r_raised' = "" /\ s_result' = "True"
         ELSE /\ r_tried' = <<"microsoft:False">> \o
                    (IF fallback.raised = "TypeError" THEN <<>>
                     ELSE <<"openvsx:" \o fallback.ret>>)
              /\ r_launched' = r_launched + direct.launched + fallback.launched
              /\ r_raised' = fallback.raised
              /\ s_result' = IF fallback.raised # "" THEN "raised"
                             ELSE fallback.ret

NextCommand ==
    \/ CloudflareLogin \/ ListExtensions \/ InstallExtensionHybrid
    \/ SetupPause

SpecCommand == InitAtCommand /\ [][NextCommand]_vars

\* the binary each of these operations needs
Needs(op) == IF op = "cf_login" THEN "cloudflared" ELSE "code-server"

CommandOps == {"cf_login", "list_extensions", "install_hybrid"}

\* C22: an operation run while the external binary it needs is absent
\* ends with a failure result, launches no child process, and the missing
\* binary does not surface as an exception raised to the caller.
C22_MissingBinaryFailsQuietly ==
    [][(/\ spc = "menu" /\ spc' = "pause" /\ s_op' \in CommandOps
        /\ Needs(s_op') \notin r_bins) =>
           (/\ s_result' \in {"not_installed", "failed", "False"}
            /\ r_launched' = r_launched
            /\ r_raised' = "")]_vars

\* C23: _install_extension_hybrid has tried the Microsoft Marketplace
\* install first and, when that failed, the Open VSX install; it has
\* returned True if one of them succeeded and False if both failed.
C23_HybridFallsBack ==
    (spc = "pause" /\ s_op = "install_hybrid") =>
        /\ r_tried # <<>> /\ r_tried[1] \in {"microsoft:True", "microsoft:False"}
        /\ r_tried[1] = "microsoft:False" =>
              (Len(r_tried) = 2 /\ r_tried[2] \in {"openvsx:True", "openvsx:False"})
        /\ s_result \in {"True", "False"}
        /\ s_result = "True" <=>
              (\E i \in 1..Len(r_tried) :
                   r_tried[i] \in {"microsoft:True", "openvsx:True"})

\* C24: no sequence of configuration operations modifies the compiled-in
\* DEFAULT_CONFIG, and a configuration that has been reset equals the
\* original default values.
C24_DefaultsNeverModified ==
    /\ [](cprog = "setup" => cdefaults = DEFAULT_CONFIG)
    /\ [][(cprog = "setup" /\ cpc = "ready" /\ cpc' = "ready" /\ cconfig' = cdefaults')
             => cconfig' = DEFAULT_CONFIG]_vars

\* C25: in the installer's configuration, whenever tunnel_configured is
\* true, server_installed is true and tunnel_name is not empty, and
\* tunnel_name is the name whose setup session ended successfully: while
\* tunnel_configured stays true, the name changes only in the step that
\* ends a session of the new name with exit code 0.
C25_ConfiguredNameSucceeded ==
    /\ [](config.tunnel_configured =>
             (config.server_installed /\ config.tunnel_name # ""))
    /\ [][(/\ config.tunnel_configured /\ config'.tunnel_configured
           /\ config'.tunnel_name # config.tunnel_name) =>
              (ipc = "poll" /\ exitcode = {0})]_vars


\* ================================================= shims and their backups
\* how many times a part occurs in the content of an extension file
Occurrences(part, content) ==
    Cardinality({i \in 1..Len(content) : content[i] = part})

\* the file holds a shim already
Patched(content) == \E i \in 1..Len(content) : content[i] # "original"

\* C26: after any number of runs of the crypto fix each extension file
\* holds each injected shim at most once, and a write of a fix that goes
\* through on a file which is patched already leaves the file as it was.
C26_ShimAtMostOnce ==
    /\ [](/\ Occurrences("polyfill", h_file) <= 1
          /\ Occurrences("aggressive", h_file) <= 1)
    /\ [][(/\ hpc \in {"n_write", "a_write"} /\ Patched(h_file)
           /\ hpc' \notin {"n_restore", "a_restore"}) =>
             (h_file' = h_file)]_vars

\* C27: every backup the injector has created (extension.js.backup and
\* extension.js.original) holds no shim: only code of the extension as it
\* was before any injection.
C27_BackupsHoldOriginal ==
    \A b \in h_backup \cup h_original : ~Patched(b)

\* the state two runs of fix_crypto_extensions lead to without any
\* failure: extension.js.original is a copy of the file the first run
\* has patched, next to a sound extension.js.backup
PatchedOriginalBackup ==
    /\ h_backup = {<<"original">>}
    /\ h_original = {<<"polyfill", "original">>}


\* ============================================ registry: the shell profile
\* bounds: updates of one run
MaxUpdates == 3

\* what the registry menu hands to _update_shell_profile_registry: the
\* JSON of a gallery, or None (Open VSX, the default: no variable)
Galleries == {"microsoft", "openvsx", "custom"}

\* f.readlines(): the text cut after every newline
RECURSIVE readlines(_)
readlines(text) ==
    IF text = <<>> THEN <<>>
    ELSE LET ends == {i \in 1..Len(text) : text[i] = Nl}
             k == IF ends = {} THEN Len(text)
                  ELSE CHOOSE i \in ends : \A j \in ends : i <= j
         IN  <<SubSeq(text, 1, k)>> \o readlines(SubSeq(text, k + 1, Len(text)))

\* 'EXTENSIONS_GALLERY' in line
Mentions(line) ==
    \E i \in 1..Len(line) : line[i][1] \in {"mention", "export"}

\* the list comprehension left out: every line is kept
KeepsGalleryLines(lines) == lines

\* [line for line in lines if 'EXTENSIONS_GALLERY' not in line]
WithoutGalleryLines(lines) == SelectSeq(lines, LAMBDA line : ~Mentions(line))

\* f.writelines(lines): the elements one after the other
RECURSIVE writelines(_)
writelines(lines) ==
    IF lines = <<>> THEN <<>> ELSE Head(lines) \o writelines(Tail(lines))

\* the first profile that exists, 0 for none
ShellProfile ==
    LET found == {f \in 1..Len(ProfileFiles) : p_files[f].exists}
    IN  IF found = {} THEN 0
        ELSE CHOOSE f \in found : \A g \in found : f <= g

\* _update_shell_profile_registry(gallery_json), gallery_json "" standing
\* for None.  An open() that raises leaves the profile as it was and ends
\* in the warning.
UpdateShellProfileRegistry ==
    /\ UNCHANGED besides_pvars
    /\ Len(p_log) < MaxUpdates
    /\ \E gallery_json \in Galleries \cup {""} :
         IF ShellProfile = 0
         THEN p_report' = "no_profile" /\ UNCHANGED <<p_files, p_log>>
         ELSE \/ LET lines == WithoutGalleryLines(
                                  readlines(p_files[ShellProfile].text))
                     added == IF gallery_json # ""
                              THEN <<<<Nl, <<"export", gallery_json>>, Nl>>>>
                              ELSE <<>>
                 IN  /\ p_files' = [p_files EXCEPT ![ShellProfile].text =
                                       writelines(lines \o added)]
                     /\ p_log' = Append(p_log, gallery_json)
                     /\ p_report' = "updated"
              \/ p_report' = "warning" /\ UNCHANGED <<p_files, p_log>>

NextProfile == UpdateShellProfileRegistry

SpecProfile == InitAtProfile /\ [][NextProfile]_vars

\* the lines of the profile in use that mention EXTENSIONS_GALLERY
GalleryLines ==
    IF ShellProfile = 0 THEN <<>>
    ELSE SelectSeq(readlines(p_files[ShellProfile].text), Mentions)

\* C28: once an update has been written, the shell profile holds at most
\* one line that mentions EXTENSIONS_GALLERY; there is such a line exactly
\* when the last update written supplied a gallery, and it is the export
\* of that gallery.  (An update that ends in the warning writes nothing.)
C28_OneGalleryLineLatestValue ==
    p_log # <<>> =>
        LET latest == p_log[Len(p_log)]
        IN  /\ Len(GalleryLines) <= 1
            /\ (Len(GalleryLines) = 1) = (latest # "")
            /\ latest # "" =>
                 GalleryLines[1] = <<<<"export", latest>>, Nl>>

\* C28 witness: a profile with lines of its own has been updated with one
\* gallery and then with another
C28_Witness ==
    /\ Len(p_log) >= 2
    /\ p_log[Len(p_log)] # "" /\ p_log[Len(p_log) - 1] # ""
    /\ p_log[Len(p_log)] # p_log[Len(p_log) - 1]
    /\ ShellProfile # 0
    /\ Len(GalleryLines) = 1
    /\ \E i \in 1..Len(p_files[ShellProfile].text) :
           p_files[ShellProfile].text[i] = Other


\* ================================================ switching the server type
\* what the switch leaves alone in the state of the tunnel operations
SwitchFrame ==
    UNCHANGED <<besides_wvars, psutil, authenticated, vs_handle, s_pipe,
                s_emitted, s_elapsed, s_tunnel_url>>

\* _switch_to_vscode_server up to the return of stop_code_server.
\* confirm: the operator typed "y".
SwitchToVscodeServer ==
    /\ SwitchFrame
    /\ spc = "menu"
    /\ UNCHANGED <<sconfig, procs, s_stopped>>
    /\ \E confirm \in BOOLEAN :
         IF ~confirm
         THEN /\ s_op' = "switch_vs" /\ s_result' = "cancelled"
              /\ spc' = "pause"
              /\ UNCHANGED <<kvars, wvars>>
         ELSE IF is_code_server_running
         THEN EnterStop("switch_vs") /\ UNCHANGED wvars
         ELSE /\ s_op' = "switch_vs" /\ s_result' = "switched"
              /\ spc' = "pause"
              /\ w_server_type' = "vscode-server"
              /\ UNCHANGED kvars

\* stop_code_server has returned: config.set("server_type", "vscode-server")
SwitchSet ==
    /\ SwitchFrame
    /\ spc = "sw_set"
    /\ w_server_type' = "vscode-server"
    /\ s_result' = "switched" /\ spc' = "pause"
    /\ UNCHANGED <<sconfig, procs, s_stopped, s_op, kvars>>

\* _switch_to_code_server: stop_vscode_server when a tunnel runs, then
\* config.set("server_type", "code-server")
SwitchToCodeServer ==
    /\ SwitchFrame
    /\ spc = "menu"
    /\ s_op' = "switch_cs" /\ spc' = "pause"
    /\ UNCHANGED kvars
    /\ \E confirm \in BOOLEAN :
         IF ~confirm
         THEN /\ s_result' = "cancelled"
              /\ UNCHANGED <<sconfig, procs, s_stopped, wvars>>
         ELSE /\ IF CodeRunning
                 THEN \E how \in {"exited", "killed", "raised"} :
                          stop_vscode_server(how)
                 ELSE UNCHANGED <<sconfig, procs, s_stopped>>
              /\ w_server_type' = "code-server"
              /\ s_result' = "switched"

\* the menu with both servers, their processes and the two switches
NextSwitch ==
    \/ SwitchToVscodeServer \/ SwitchSet \/ SwitchToCodeServer
    \/ StartCodeServer \/ StartCodeServerCheck \/ ServerFork \/ ServerExit
    \/ StopIterate \/ StopWait \/ StopVerify \/ StopInterrupt
    \/ StartVsBegin \/ StartVsLoop \/ StartVsReadLine \/ StartVsReadError
    \/ StartVsInterrupt \/ SetupProcEmit \/ SetupProcExit \/ SetupClock
    \/ SetupPause

SpecSwitch == InitAtSetup /\ [][NextSwitch]_vars

\* C29: server_type changes only when the server that was active has
\* stopped running, and a switch the operator declines changes neither
\* server_type nor any process.
C29_SwitchAfterStop ==
    /\ [][(w_server_type' # w_server_type) =>
             (IF w_server_type = "code-server"
              THEN ~is_code_server_running' ELSE ~CodeRunning')]_vars
    /\ [][(/\ spc = "menu" /\ s_op' \in {"switch_vs", "switch_cs"}
           /\ s_result' = "cancelled") =>
             UNCHANGED <<w_server_type, kprocs, k_signal, procs>>]_vars


\* the state a switch to VSCode Server ends in when stop_code_server has
\* not stopped the server: the type is changed and code-server runs on
SwitchedWhileRunning ==
    /\ spc = "pause" /\ s_op = "switch_vs" /\ s_result = "switched"
    /\ w_server_type = "vscode-server"
    /\ is_code_server_running


\* ======================================================= extension lists
\* bounds: entries of a stored list
MaxExtensions == 3

\* what the operator may type as an extension id ("": nothing)
ExtensionIds == {"", "ms-python.python", "golang.go"}

\* ext_id in extensions
Contains(list, ext_id) == \E i \in 1..Len(list) : list[i] = ext_id

\* list.pop(index), index counted from 0
Pop(list, index) ==
    SubSeq(list, 1, index) \o SubSeq(list, index + 2, Len(list))

\* the numbers the operator may type when removing
RemoveNumbers == 0..(MaxExtensions + 1)

\* installer, "Add extension": appended unless empty or present
InstallerAddExtension ==
    /\ UNCHANGED besides_xvars
    /\ Len(x_extensions) < MaxExtensions
    /\ \E ext_id \in ExtensionIds :
         x_extensions' = IF ext_id # "" /\ ~Contains(x_extensions, ext_id)
                         THEN Append(x_extensions, ext_id)
                         ELSE x_extensions
    /\ UNCHANGED <<x_custom, x_popular>>

\* installer, "Remove extension"
InstallerRemoveExtension ==
    /\ UNCHANGED besides_xvars
    /\ \E number \in RemoveNumbers :
         LET index == number - 1 IN
         x_extensions' = IF 0 <= index /\ index < Len(x_extensions)
                         THEN Pop(x_extensions, index)
                         ELSE x_extensions
    /\ UNCHANGED <<x_custom, x_popular>>

\* installer, "Reset to default"
InstallerResetExtensions ==
    /\ UNCHANGED besides_xvars
    /\ x_extensions' = DefaultExtensions
    /\ UNCHANGED <<x_custom, x_popular>>

\* _configure_extensions, "Add custom extension": appended unless empty
ConfigureAddCustom ==
    /\ UNCHANGED besides_xvars
    /\ Len(x_custom) < MaxExtensions
    /\ \E ext_id \in ExtensionIds :
         x_custom' = IF ext_id # "" THEN Append(x_custom, ext_id)
                     ELSE x_custom
    /\ UNCHANGED <<x_extensions, x_popular>>

\* _configure_extensions, "Remove custom extension"
ConfigureRemoveCustom ==
    /\ UNCHANGED besides_xvars
    /\ x_custom # <<>>
    /\ \E number \in RemoveNumbers :
         LET idx == number - 1 IN
         x_custom' = IF 0 <= idx /\ idx < Len(x_custom)
                     THEN Pop(x_custom, idx)
                     ELSE x_custom
    /\ UNCHANGED <<x_extensions, x_popular>>

\* _configure_extensions, "Reset popular extensions"
ConfigureResetPopular ==
    /\ UNCHANGED besides_xvars
    /\ x_popular' = DefaultPopular
    /\ UNCHANGED <<x_extensions, x_custom>>

\* _install_custom_extension with an extension id: after a successful
\* install the id is appended unless present
InstallCustomExtension ==
    /\ UNCHANGED besides_xvars
    /\ Len(x_custom) < MaxExtensions
    /\ \E ext_id \in ExtensionIds, success \in BOOLEAN :
         x_custom' = IF ext_id # "" /\ success /\ ~Contains(x_custom, ext_id)
                     THEN Append(x_custom, ext_id)
                     ELSE x_custom
    /\ UNCHANGED <<x_extensions, x_popular>>

NextExtensions ==
    \/ InstallerAddExtension \/ InstallerRemoveExtension
    \/ InstallerResetExtensions
    \/ ConfigureAddCustom \/ ConfigureRemoveCustom \/ ConfigureResetPopular
    \/ InstallCustomExtension

SpecExtensions == InitAtExtensions /\ [][NextExtensions]_vars

\* no identifier occurs twice in the list
Distinct(list) ==
    \A i, j \in 1..Len(list) : list[i] = list[j] => i = j

\* C30: after any sequence of add, remove and reset operations no
\* extension identifier appears more than once in a stored list.
C30_NoDuplicateExtensions ==
    Distinct(x_extensions) /\ Distinct(x_custom) /\ Distinct(x_popular)

====
